---- MODULE Spec2Model ----
(***************************************************************************)
(* Model of the streaming template generator of Dilcore-AI-Core:           *)
(*   StreamingModuleBuilderAgent.generate_template_stream, its chunk       *)
(*   classifier _is_thinking_chunk and its terminal parser _parse_response *)
(*   (src/src/ai_agent/agent/streaming.py).                                *)
(*                                                                         *)
(* Text is a sequence of lexemes; each lexeme stands for a fixed string:   *)
(*   "FJ"  ```json                    "F"   ```                            *)
(*   "WS"  a newline                  "P"   hello                          *)
(*   "EX"  EXPLANATION:               "ex"  explanation:                   *)
(*   "TA"  {"template_id":"a","template_name":"A","description":"d"}       *)
(*   "TB"  {"template_id":"b","template_name":"B","description":"d",       *)
(*          "status":"active"}                                             *)
(*   "TI"  {"template_id":"a"}                                             *)
(* Concatenating texts is concatenating the sequences.                     *)
(***************************************************************************)
EXTENDS Integers, Sequences, FiniteSets, TLC

\* ------------------------------------------------------------------ bounds

\* Most fragments the upstream model stream delivers in one run.
MaxChunks == 3

\* Longest text (in lexemes) handed to _parse_response on its own.
MaxLen == 5

\* Most entities add_to_context has put in the conversation context.
MaxContext == 2
MaxThreads == 2
MaxInstances == 3
MaxDocs == 2
MaxWaitCalls == 1

\* ---------------------------------------------------------------- lexemes

Tokens == {"FJ", "F", "WS", "P", "EX", "ex", "TA", "TB", "TI"}

IsFence(t) == t \in {"F", "FJ"}

IsSpace(t) == t = "WS"

IsExplanationMarker_CaseSensitive(t) == t = "EX"

IsExplanationMarker(t) == t \in {"EX", "ex"}

\* The JSON documents among the lexemes, as json.loads returns them.
JsonDocs == {"TA", "TB", "TI"}

JsonValue(t) ==
    CASE t = "TA" -> [template_id |-> "a", template_name |-> "A", description |-> "d"]
      [] t = "TB" -> [template_id |-> "b", template_name |-> "B", description |-> "d",
                      status |-> "active"]
      [] t = "TI" -> [template_id |-> "a"]

\* ------------------------------------------------------- string utilities

\* Least index i >= from with Test(s[i]), or 0 when there is none
\* (re.search scans left to right).
RECURSIVE FirstFence(_, _)
FirstFence(s, from) ==
    IF from > Len(s) THEN 0
    ELSE IF IsFence(s[from]) THEN from
    ELSE FirstFence(s, from + 1)

RECURSIVE FirstOpen(_, _)
FirstOpen(s, from) ==
    IF from > Len(s) THEN 0
    ELSE IF s[from] = "FJ" /\ FirstFence(s, from + 1) # 0 THEN from
    ELSE FirstOpen(s, from + 1)

RECURSIVE FirstMarker(_, _)
FirstMarker(s, from) ==
    IF from > Len(s) THEN 0
    ELSE IF IsExplanationMarker(s[from]) THEN from
    ELSE FirstMarker(s, from + 1)

RECURSIVE LStrip(_)
LStrip(s) == IF s # <<>> /\ IsSpace(Head(s)) THEN LStrip(Tail(s)) ELSE s

RECURSIVE RStrip(_)
RStrip(s) ==
    IF s # <<>> /\ IsSpace(s[Len(s)]) THEN RStrip(SubSeq(s, 1, Len(s) - 1)) ELSE s

\* str.strip()
Strip(s) == RStrip(LStrip(s))

\* ------------------------------------------------------ schema validation

Statuses == {"draft", "active", "archived"}

RequiredFields == {"template_id", "template_name", "description"}

NoTemplate ==
    [template_id |-> "", template_name |-> "", description |-> "", status |-> ""]

Failure == [ok |-> FALSE, template |-> NoTemplate, explanation |-> <<>>]

\* TemplateResponse.model_validate: the three required strings must be
\* present, status must be one of the enum's values and defaults to draft.
ModelValidate(v) ==
    IF RequiredFields \subseteq DOMAIN v
       /\ ("status" \in DOMAIN v => v.status \in Statuses)
    THEN [ok |-> TRUE,
          template |-> [template_id |-> v.template_id,
                        template_name |-> v.template_name,
                        description |-> v.description,
                        status |-> IF "status" \in DOMAIN v THEN v.status ELSE "draft"]]
    ELSE [ok |-> FALSE, template |-> NoTemplate]

\* json.loads of a stripped text: exactly one JSON document, nothing else.
JsonLoads(s) ==
    IF Len(s) = 1 /\ s[1] \in JsonDocs
    THEN [raised |-> FALSE, value |-> JsonValue(s[1])]
    ELSE [raised |-> TRUE, value |-> <<>>]

\* ------------------------------------ PydanticOutputParser.parse (fallback)

\* str.strip(" \n\r\t`") of the parser library: white space and back-ticks go
\* from both ends; of a leading ```json the word json (lexeme "J") stays.
RECURSIVE TickLStrip(_)
TickLStrip(s) ==
    IF s = <<>> THEN s
    ELSE IF IsSpace(Head(s)) \/ Head(s) = "F" THEN TickLStrip(Tail(s))
    ELSE IF Head(s) = "FJ" THEN <<"J">> \o Tail(s)
    ELSE s

RECURSIVE TickRStrip(_)
TickRStrip(s) ==
    IF s # <<>> /\ (IsSpace(s[Len(s)]) \/ s[Len(s)] = "F")
    THEN TickRStrip(SubSeq(s, 1, Len(s) - 1))
    ELSE s

TickStrip(s) == TickRStrip(TickLStrip(s))

\* parse_partial_json: the longest prefix of the text that is a JSON document
\* is parsed (characters are dropped from the end until json.loads succeeds);
\* a text no prefix of which is JSON raises JSONDecodeError.
PartialJson(s) ==
    IF s # <<>> /\ Head(s) \in JsonDocs
    THEN [raised |-> FALSE, value |-> JsonValue(Head(s))]
    ELSE [raised |-> TRUE, value |-> <<>>]

\* parse_json_markdown, then validation against TemplateResponse: the text
\* as it is, and when that raises, whatever follows the first ``` of the text.
ParserParse(content) ==
    LET r1 == PartialJson(TickStrip(content))
        i == FirstFence(content, 1)
        rest == IF i = 0 THEN content ELSE SubSeq(content, i + 1, Len(content))
        r2 == PartialJson(TickStrip(rest))
    IN  IF ~r1.raised THEN ModelValidate(r1.value)
        ELSE IF ~r2.raised THEN ModelValidate(r2.value)
        ELSE [ok |-> FALSE, template |-> NoTemplate]

\* ------------------------------------------------------- _parse_response

DefaultExplanation == <<"Template generated based on the provided requirements.">>

\* re.search(r"```json\s*([\s\S]*?)\s*```", content): the first ```json that
\* some later ``` closes, and the text up to the nearest such ```.
FencedBlock(content) ==
    LET i == FirstOpen(content, 1)
        j == IF i = 0 THEN 0 ELSE FirstFence(content, i + 1)
    IN  [found |-> i # 0,
         open |-> i,
         close |-> j,
         json_str |-> IF i = 0 THEN <<>> ELSE Strip(SubSeq(content, i + 1, j - 1))]

\* re.search(r"EXPLANATION:\s*([\s\S]*?)(?:\Z|```)", content, re.IGNORECASE)
Explanation(content) ==
    LET k == FirstMarker(content, 1)
        e == FirstFence(content, k + 1)
        last == IF e = 0 THEN Len(content) ELSE e - 1
    IN  IF k = 0 THEN DefaultExplanation
        ELSE Strip(SubSeq(content, k + 1, last))

ExtractTemplate_LastBlock(content) ==
    LET opens == {i \in 1..Len(content) :
                     content[i] = "FJ" /\ FirstFence(content, i + 1) # 0}
        i == IF opens = {} THEN 0 ELSE CHOOSE m \in opens : \A n \in opens : n <= m
        body == Strip(SubSeq(content, i + 1, FirstFence(content, i + 1) - 1))
        loaded == JsonLoads(body)
    IN  IF i # 0
        THEN IF loaded.raised THEN [ok |-> FALSE, template |-> NoTemplate]
             ELSE ModelValidate(loaded.value)
        ELSE ParserParse(content)

ExtractTemplate_NoFallback(content) ==
    LET m == FencedBlock(content)
        loaded == JsonLoads(m.json_str)
    IN  IF m.found /\ ~loaded.raised THEN ModelValidate(loaded.value)
        ELSE [ok |-> FALSE, template |-> NoTemplate]

ExtractTemplate_FallbackAfterBlock(content) ==
    LET m == FencedBlock(content)
        loaded == JsonLoads(m.json_str)
        block == IF loaded.raised THEN [ok |-> FALSE, template |-> NoTemplate]
                 ELSE ModelValidate(loaded.value)
    IN  IF m.found /\ block.ok THEN block ELSE ParserParse(content)

\* Lines 241-249: the fenced block when there is one, else the whole text.
ExtractTemplate(content) ==
    LET m == FencedBlock(content)
        loaded == JsonLoads(m.json_str)
    IN  IF m.found
        THEN IF loaded.raised THEN [ok |-> FALSE, template |-> NoTemplate]
             ELSE ModelValidate(loaded.value)
        ELSE ParserParse(content)

\* _parse_response: a StreamingTemplateResponse, or TemplateParsingError
\* (ok = FALSE) for whatever went wrong inside.
ParseResponse(content) ==
    LET t == ExtractTemplate(content)
    IN  IF t.ok
        THEN [ok |-> TRUE, template |-> t.template,
              explanation |-> Explanation(content)]
        ELSE Failure

\* ------------------------------------------------------------ stream events

THINKING == "thinking"
CONTENT == "content"
TEMPLATE == "template"
ERROR == "error"
DONE == "done"

StreamEvent(type, data) == [event_type |-> type, data |-> data]

ProviderMessage == "Unable to communicate with AI provider"
ParsingMessage == "Unable to parse the generated template response"
UnexpectedMessage == "An unexpected error occurred during template generation"

ProviderErrors == {"APIConnectionError", "APIError", "RateLimitError"}
ParserErrors == {"OutputParserException", "TemplateParsingError"}

\* Exceptions the model client's stream raises, and the texts they carry.
UpstreamErrors == ProviderErrors \cup {"ValueError"}
UpstreamTexts == {"API Error", "sk-secret"}

NoException == [cls |-> "none", msg |-> ""]

\* The except clauses of generate_template_stream, in their order.
ExceptMessage_Leak(exc) == exc.msg

ExceptMessage(exc) ==
    IF exc.cls \in ProviderErrors THEN ProviderMessage
    ELSE IF exc.cls \in ParserErrors THEN ParsingMessage
    ELSE UnexpectedMessage

\* StreamingTemplateResponse.model_dump(mode="json")
ModelDump(response) ==
    [template |-> response.template, explanation |-> response.explanation]

\* ------------------------------------------------------- upstream chunks

\* An attribute of a chunk holding a dict: missing, None, or a dict, of which
\* only the keys with a truthy value matter.
MetadataValues ==
    {[attr |-> "absent", truthy |-> {}], [attr |-> "none", truthy |-> {}],
     [attr |-> "dict", truthy |-> {}], [attr |-> "dict", truthy |-> {"thinking"}],
     [attr |-> "dict", truthy |-> {"reasoning"}]}

KwargsValues ==
    {[attr |-> "absent", truthy |-> {}], [attr |-> "none", truthy |-> {}],
     [attr |-> "dict", truthy |-> {}], [attr |-> "dict", truthy |-> {"thinking"}],
     [attr |-> "dict", truthy |-> {"is_thinking"}]}

ChunkTexts == {<<>>, <<"P">>, <<"TA">>, <<"FJ", "TA", "F">>}

Chunks ==
    {[has_content |-> h, content |-> t, response_metadata |-> m,
      additional_kwargs |-> k] :
        h \in BOOLEAN, t \in ChunkTexts, m \in MetadataValues, k \in KwargsValues}

\* chunk.content if hasattr(chunk, "content") else ""
ChunkContent(chunk) == IF chunk.has_content THEN chunk.content ELSE <<>>

\* _is_thinking_chunk
IsThinkingChunk_MetadataOnly(chunk) ==
    /\ chunk.response_metadata.attr # "absent"
    /\ chunk.response_metadata.truthy \cap {"thinking", "reasoning"} # {}

IsThinkingChunk(chunk) ==
    \/ /\ chunk.response_metadata.attr # "absent"
       /\ LET metadata == IF chunk.response_metadata.attr = "none" THEN {}
                          ELSE chunk.response_metadata.truthy
          IN  "thinking" \in metadata \/ "reasoning" \in metadata
    \/ /\ chunk.additional_kwargs.attr # "absent"
       /\ LET kwargs == IF chunk.additional_kwargs.attr = "none" THEN {}
                        ELSE chunk.additional_kwargs.truthy
          IN  "thinking" \in kwargs \/ "is_thinking" \in kwargs

\* Lines 141-146: the mode of the event of a non-empty chunk.
NextMode_StayThinking(mode, is_thinking) ==
    IF is_thinking THEN THINKING ELSE mode

NextMode(mode, is_thinking) ==
    IF is_thinking THEN THINKING
    ELSE IF mode = THINKING /\ ~is_thinking THEN CONTENT
    ELSE mode

\* ------------------------------------------- generate_template_stream state

VARIABLES
    pc,                   \* where the generator is suspended
    current_mode,         \* current_mode
    accumulated_content,  \* accumulated_content
    events,               \* the events yielded so far, in order
    fragments,            \* the chunks pulled from the upstream stream so far
    upstream,             \* "open", "ended" (exhausted) or "raised"
    raised,               \* the exception caught by the try block, if any
    parse_calls,          \* the arguments _parse_response was called with
    p_pc,                 \* _parse_response on its own: "input" or "parsed"
    p_content,            \* the text handed to _parse_response
    p_result              \* what _parse_response returned

stream_vars ==
    <<pc, current_mode, accumulated_content, events, fragments, upstream,
      raised, parse_calls>>

parse_vars == <<p_pc, p_content, p_result>>

\* The other components: the non-streaming process of the streaming agent,
\* the single-shot parse, ModuleBuilderAgent, PersonaAgent and its routes.
VARIABLES
    process_result,       \* what StreamingModuleBuilderAgent.process came to
    s_pc,                 \* the single-shot parse on its own: "input" or "parsed"
    s_result,             \* what self._parser.parse made of p_content
    op,                   \* the operation a run of the service performs
    g_pc,                 \* where generate_template is
    metadata_store,       \* self._metadata_store of the agent: "none" or "loaded"
    data_store,           \* PersonaAgent._data_store: "none" or "loaded"
    context_memory,       \* self._context_memory
    added,                \* the entities added since the last clear_context
    context_copy,         \* the list get_context_entities returned last
    ctx_call,             \* the last call on the context, or "generate"
    related_entities,     \* related_entities of generate_template
    context_entities,     \* context_entities of generate_template
    wait_calls,           \* the calls made on the agent while generate_template waits
    search,               \* the similarity search: "not_run", "ok" or "raised"
    llm_calls,            \* the context strings the model was invoked with
    reply,                \* the content of the model's reply
    g_result,             \* what generate_template returned or raised
    cause,                \* the exception underneath a failure, if any
    persona_pc,           \* where PersonaAgent.process is
    persona_retrieved,    \* the three lists PersonaAgent.process retrieved
    persona_response,     \* the PersonaResponse of PersonaAgent.process
    http_response,        \* the response of a persona indexing endpoint
    h_gen,                \* generate_template_stream seen from its consumer
    h_consumer,           \* event_generator of the streaming route
    h_fragments,          \* the texts of the chunks pulled so far
    h_handed,             \* the events the consumer was handed, in order
    h_frames              \* the SSE frames event_generator has yielded

VARIABLES
    agents,                    \* AgentRegistry._agents: the registered types
    instances,                 \* AgentRegistry._instances: type -> instance, 0 for none
    agent_instance,            \* core._agent_instance, 0 for None
    streaming_agent_instance,  \* streaming._streaming_agent_instance, 0 for None
    next_id,                   \* the identity the next constructed agent gets
    threads,                   \* the worker threads inside a create_* function
    built,                     \* per accessor: the agents constructed since its reset
    returned,                  \* per accessor: the agents returned since its reset
    last                       \* what the last get_agent call came to

VARIABLES
    rq_pc,                \* where the handling of a generate request is
    rq_route,             \* the endpoint the request was posted to
    rq_prompt,            \* the "prompt" member of the request body
    rq_errors,            \* exc.errors() of the RequestValidationError, if any
    rq_response,          \* the response: its status code and its content
    rq_calls              \* the calls the endpoint made on its agent

VARIABLES
    saved_index,          \* per index path: the documents of the saved index
    persona_index,        \* PersonaAgent._metadata_store and _data_store
    builder_index,        \* ModuleBuilderAgent._metadata_store
    loaded_docs,          \* what the module-builder agent's load found
    found,                \* what find_related_entities returned last
    index_result,         \* what the last index_metadata / index_data came to
    next_doc              \* the number the next indexed document gets

single_vars == <<s_pc, s_result>>

ctx_vars == <<added, context_copy, ctx_call>>

store_vars == <<metadata_store, data_store>>

gen_vars ==
    <<g_pc, related_entities, context_entities, search, llm_calls, reply, g_result>>

persona_vars == <<persona_pc, persona_retrieved, persona_response>>

agent_vars ==
    <<op, store_vars, context_memory, ctx_vars, gen_vars, wait_calls, cause,
      persona_vars, http_response>>

handoff_vars == <<h_gen, h_consumer, h_fragments, h_handed, h_frames>>

registry_vars ==
    <<agents, instances, agent_instance, streaming_agent_instance, next_id,
      threads, built, returned, last>>

request_vars == <<rq_pc, rq_route, rq_prompt, rq_errors, rq_response, rq_calls>>

index_vars ==
    <<saved_index, persona_index, builder_index, loaded_docs, found,
      index_result, next_doc>>

extra_vars == <<registry_vars, request_vars, index_vars>>

rest_vars == <<process_result, single_vars, agent_vars, handoff_vars, extra_vars>>

vars == <<stream_vars, parse_vars, rest_vars>>

\* What the run keeps of a pulled chunk: its text and whether it carries one
\* of the thinking markers.
ThinkingMarked(chunk) ==
    \/ chunk.response_metadata.truthy \cap {"thinking", "reasoning"} # {}
    \/ chunk.additional_kwargs.truthy \cap {"thinking", "is_thinking"} # {}

Fragment(chunk) ==
    [text |-> ChunkContent(chunk), marked |-> ThinkingMarked(chunk)]

\* Lines 126-127.
StreamInit ==
    /\ pc = "streaming"
    /\ current_mode = CONTENT
    /\ accumulated_content = <<>>
    /\ events = <<>>
    /\ fragments = <<>>
    /\ upstream = "open"
    /\ raised = NoException
    /\ parse_calls = <<>>

\* One turn of the async-for loop, lines 132-155: an empty chunk is skipped,
\* any other is classified, accumulated and yielded.
ConsumeChunk_ContentOnlyBuffer(chunk) ==
    /\ pc = "streaming"
    /\ Len(fragments) < MaxChunks
    /\ fragments' = Append(fragments, Fragment(chunk))
    /\ IF ChunkContent(chunk) = <<>>
       THEN UNCHANGED <<current_mode, accumulated_content, events>>
       ELSE /\ current_mode' = NextMode(current_mode, IsThinkingChunk(chunk))
            /\ accumulated_content' =
                   IF IsThinkingChunk(chunk) THEN accumulated_content
                   ELSE accumulated_content \o ChunkContent(chunk)
            /\ events' = Append(events,
                   StreamEvent(current_mode', ChunkContent(chunk)))
    /\ UNCHANGED <<pc, upstream, raised, parse_calls, parse_vars, rest_vars>>

ConsumeChunk_ModeBeforeSkip(chunk) ==
    /\ pc = "streaming"
    /\ Len(fragments) < MaxChunks
    /\ fragments' = Append(fragments, Fragment(chunk))
    /\ IF ChunkContent(chunk) = <<>>
       THEN /\ current_mode' = NextMode(current_mode, IsThinkingChunk(chunk))
            /\ UNCHANGED <<accumulated_content, events>>
       ELSE /\ current_mode' = NextMode(current_mode, IsThinkingChunk(chunk))
            /\ accumulated_content' = accumulated_content \o ChunkContent(chunk)
            /\ events' = Append(events,
                   StreamEvent(current_mode', ChunkContent(chunk)))
    /\ UNCHANGED <<pc, upstream, raised, parse_calls, parse_vars, rest_vars>>

ConsumeChunk_SilentThinking(chunk) ==
    /\ pc = "streaming"
    /\ Len(fragments) < MaxChunks
    /\ fragments' = Append(fragments, Fragment(chunk))
    /\ IF ChunkContent(chunk) = <<>>
       THEN UNCHANGED <<current_mode, accumulated_content, events>>
       ELSE /\ current_mode' = NextMode(current_mode, IsThinkingChunk(chunk))
            /\ accumulated_content' = accumulated_content \o ChunkContent(chunk)
            /\ events' = IF current_mode' = THINKING THEN events
                         ELSE Append(events,
                                  StreamEvent(current_mode', ChunkContent(chunk)))
    /\ UNCHANGED <<pc, upstream, raised, parse_calls, parse_vars, rest_vars>>

ConsumeChunk(chunk) ==
    /\ pc = "streaming"
    /\ Len(fragments) < MaxChunks
    /\ fragments' = Append(fragments, Fragment(chunk))
    /\ IF ChunkContent(chunk) = <<>>
       THEN UNCHANGED <<current_mode, accumulated_content, events>>
       ELSE /\ current_mode' = NextMode(current_mode, IsThinkingChunk(chunk))
            /\ accumulated_content' = accumulated_content \o ChunkContent(chunk)
            /\ events' = Append(events,
                   StreamEvent(current_mode', ChunkContent(chunk)))
    /\ UNCHANGED <<pc, upstream, raised, parse_calls, parse_vars, rest_vars>>

\* The upstream stream is exhausted, lines 157-164 and 185-191: the terminal
\* parse, then the TEMPLATE event, or the ERROR event of a failed parse.
UpstreamEnds ==
    /\ pc = "streaming"
    /\ upstream' = "ended"
    /\ parse_calls' = Append(parse_calls, accumulated_content)
    /\ LET template_response == ParseResponse(accumulated_content)
       IN  IF template_response.ok
           THEN /\ events' = Append(events,
                       StreamEvent(TEMPLATE, ModelDump(template_response)))
                /\ pc' = "template_yielded"
                /\ raised' = raised
           ELSE /\ raised' = [cls |-> "TemplateParsingError", msg |-> ParsingMessage]
                /\ events' = Append(events, StreamEvent(ERROR, ExceptMessage(raised')))
                /\ pc' = "error_yielded"
    /\ UNCHANGED <<current_mode, accumulated_content, fragments, parse_vars, rest_vars>>

\* The upstream stream raises, lines 177-199: one ERROR event.
UpstreamRaises_ThenDone(exc) ==
    /\ pc = "streaming"
    /\ upstream' = "raised"
    /\ raised' = exc
    /\ events' = events \o <<StreamEvent(ERROR, ExceptMessage(exc)),
                             StreamEvent(DONE, "Stream completed")>>
    /\ pc' = "error_yielded"
    /\ UNCHANGED <<current_mode, accumulated_content, fragments, parse_calls,
                   parse_vars, rest_vars>>

UpstreamRaises_Salvage(exc) ==
    /\ pc = "streaming"
    /\ upstream' = "raised"
    /\ raised' = exc
    /\ parse_calls' = Append(parse_calls, accumulated_content)
    /\ events' = Append(events,
           IF ParseResponse(accumulated_content).ok
           THEN StreamEvent(TEMPLATE, ModelDump(ParseResponse(accumulated_content)))
           ELSE StreamEvent(ERROR, ExceptMessage(exc)))
    /\ pc' = "error_yielded"
    /\ UNCHANGED <<current_mode, accumulated_content, fragments, parse_vars, rest_vars>>

UpstreamRaises(exc) ==
    /\ pc = "streaming"
    /\ upstream' = "raised"
    /\ raised' = exc
    /\ events' = Append(events, StreamEvent(ERROR, ExceptMessage(exc)))
    /\ pc' = "error_yielded"
    /\ UNCHANGED <<current_mode, accumulated_content, fragments, parse_calls,
                   parse_vars, rest_vars>>

\* Lines 166-170.
YieldDone_Missing ==
    /\ pc = "template_yielded"
    /\ pc' = "done_yielded"
    /\ UNCHANGED <<current_mode, accumulated_content, events, fragments, upstream,
                   raised, parse_calls, parse_vars, rest_vars>>

YieldDone ==
    /\ pc = "template_yielded"
    /\ events' = Append(events, StreamEvent(DONE, "Stream completed"))
    /\ pc' = "done_yielded"
    /\ UNCHANGED <<current_mode, accumulated_content, fragments, upstream, raised,
                   parse_calls, parse_vars, rest_vars>>

\* The generator returns after its last yield (lines 172-175, or the end of
\* an except clause).
Finish ==
    /\ pc \in {"done_yielded", "error_yielded"}
    /\ pc' = "finished"
    /\ UNCHANGED <<current_mode, accumulated_content, events, fragments, upstream,
                   raised, parse_calls, parse_vars, rest_vars>>

\* --------------------------------------------- _parse_response on its own

ParseIdle ==
    /\ p_pc = "idle"
    /\ p_content = <<>>
    /\ p_result = Failure

ParseInit ==
    /\ p_pc = "input"
    /\ p_content = <<>>
    /\ p_result = Failure

StreamIdle ==
    /\ pc = "idle"
    /\ current_mode = CONTENT
    /\ accumulated_content = <<>>
    /\ events = <<>>
    /\ fragments = <<>>
    /\ upstream = "open"
    /\ raised = NoException
    /\ parse_calls = <<>>

\* The model's reply grows by one lexeme.
AppendToken(t) ==
    /\ p_pc = "input"
    /\ Len(p_content) < MaxLen
    /\ p_content' = Append(p_content, t)
    /\ UNCHANGED <<p_pc, p_result, stream_vars, rest_vars>>

\* _parse_response(content), lines 227-266.
CallParseResponse ==
    /\ p_pc = "input"
    /\ p_result' = ParseResponse(p_content)
    /\ p_pc' = "parsed"
    /\ UNCHANGED <<p_content, stream_vars, rest_vars>>

\* ------------------------------------------------------ the agent singletons

\* The types the three agent modules register when they are imported.
RegisteredTypes == {"module-builder", "module-builder-streaming", "persona"}

AgentTypes == RegisteredTypes \cup {"unknown"}

\* The two module-level factories and the variable each keeps its agent in.
Factories == {"create_template_agent", "create_streaming_template_agent"}

Accessors == AgentTypes \cup Factories

\* The worker threads FastAPI runs the sync dependencies get_agent and
\* get_streaming_agent in.
Threads == 1..MaxThreads

NoThread == [fn |-> "none", pc |-> "idle", ret |-> 0]

NoCall ==
    [type |-> "", registered |-> FALSE, kind |-> "none", id |-> 0,
     unchanged |-> TRUE]

\* The module variable of a factory.
ModuleInstance(fn) ==
    IF fn = "create_template_agent" THEN agent_instance
    ELSE streaming_agent_instance

\* AgentRegistry.register(agent_type)(agent_class), line 46
Register(agent_type) ==
    /\ agents' = agents \cup {agent_type}
    /\ UNCHANGED <<instances, agent_instance, streaming_agent_instance, next_id,
                   threads, built, returned, last>>
    /\ UNCHANGED <<stream_vars, parse_vars, process_result, single_vars,
                   agent_vars, handoff_vars, request_vars, index_vars>>

\* AgentRegistry.get_agent, lines 68-72, as the caller's step makes it: the
\* instance of the type is returned, constructed and stored first when there
\* is none, or ValueError is raised for a type that is not registered.
GetAgentCall(agent_type) ==
    /\ (instances[agent_type] = 0 /\ agent_type \in agents) => next_id <= MaxInstances
    /\ UNCHANGED <<agents, agent_instance, streaming_agent_instance, threads>>
    /\ IF instances[agent_type] # 0
       THEN /\ last' = [type |-> agent_type, registered |-> agent_type \in agents,
                        kind |-> "instance", id |-> instances[agent_type],
                        unchanged |-> TRUE]
            /\ returned' = [returned EXCEPT
                               ![agent_type] = @ \cup {instances[agent_type]}]
            /\ UNCHANGED <<instances, next_id, built>>
       ELSE IF agent_type \notin agents
       THEN /\ UNCHANGED <<instances, next_id, built, returned>>
            /\ last' = [type |-> agent_type, registered |-> agent_type \in agents,
                        kind |-> "ValueError", id |-> 0,
                        unchanged |-> instances' = instances /\ agents' = agents]
       ELSE /\ instances' = [instances EXCEPT ![agent_type] = next_id]
            /\ next_id' = next_id + 1
            /\ built' = [built EXCEPT ![agent_type] = @ \cup {next_id}]
            /\ returned' = [returned EXCEPT ![agent_type] = @ \cup {next_id}]
            /\ last' = [type |-> agent_type, registered |-> agent_type \in agents,
                        kind |-> "instance", id |-> next_id, unchanged |-> FALSE]

\* AgentRegistry.get_agent called on its own, on the event loop.
GetAgent(agent_type) ==
    /\ GetAgentCall(agent_type)
    /\ UNCHANGED <<stream_vars, parse_vars, process_result, single_vars,
                   agent_vars, handoff_vars, request_vars, index_vars>>

\* AgentRegistry.clear_instances, line 101
ClearInstances ==
    /\ instances' = [t \in AgentTypes |-> 0]
    /\ built' = [a \in Accessors |-> IF a \in AgentTypes THEN {} ELSE built[a]]
    /\ returned' = [a \in Accessors |-> IF a \in AgentTypes THEN {} ELSE returned[a]]
    /\ UNCHANGED <<agents, agent_instance, streaming_agent_instance, next_id,
                   threads, last>>
    /\ UNCHANGED <<stream_vars, parse_vars, process_result, single_vars,
                   agent_vars, handoff_vars, request_vars, index_vars>>

\* module._agent_instance = None, as the tests do between calls.
ResetModuleVariable(fn) ==
    /\ \A t \in Threads : threads[t].fn # fn
    /\ agent_instance' =
           IF fn = "create_template_agent" THEN 0 ELSE agent_instance
    /\ streaming_agent_instance' =
           IF fn = "create_streaming_template_agent" THEN 0
           ELSE streaming_agent_instance
    /\ built' = [built EXCEPT ![fn] = {}]
    /\ returned' = [returned EXCEPT ![fn] = {}]
    /\ UNCHANGED <<agents, instances, next_id, threads, last>>
    /\ UNCHANGED <<stream_vars, parse_vars, process_result, single_vars,
                   agent_vars, handoff_vars, request_vars, index_vars>>

\* A request's dependency get_agent / get_streaming_agent starts in a worker
\* thread and calls its factory.
EnterFactory(t, fn) ==
    /\ threads[t].fn = "none"
    /\ threads' = [threads EXCEPT ![t] = [fn |-> fn, pc |-> "test", ret |-> 0]]
    /\ UNCHANGED <<agents, instances, agent_instance, streaming_agent_instance,
                   next_id, built, returned, last>>
    /\ UNCHANGED <<stream_vars, parse_vars, process_result, single_vars,
                   agent_vars, handoff_vars, request_vars, index_vars>>

\* `if _agent_instance is None:`, core.py line 228, streaming.py line 290
TestInstance(t) ==
    /\ threads[t].pc = "test"
    /\ threads' = [threads EXCEPT
                      ![t].pc = IF ModuleInstance(threads[t].fn) = 0
                                THEN "construct" ELSE "return"]
    /\ UNCHANGED <<agents, instances, agent_instance, streaming_agent_instance,
                   next_id, built, returned, last>>
    /\ UNCHANGED <<stream_vars, parse_vars, process_result, single_vars,
                   agent_vars, handoff_vars, request_vars, index_vars>>

\* `_agent_instance = ModuleBuilderAgent(settings)`, core.py line 229,
\* streaming.py line 291
ConstructInstance(t) ==
    /\ threads[t].pc = "construct"
    /\ next_id <= MaxInstances
    /\ agent_instance' =
           IF threads[t].fn = "create_template_agent" THEN next_id
           ELSE agent_instance
    /\ streaming_agent_instance' =
           IF threads[t].fn = "create_streaming_template_agent" THEN next_id
           ELSE streaming_agent_instance
    /\ next_id' = next_id + 1
    /\ built' = [built EXCEPT ![threads[t].fn] = @ \cup {next_id}]
    /\ threads' = [threads EXCEPT ![t].pc = "return"]
    /\ UNCHANGED <<agents, instances, returned, last>>
    /\ UNCHANGED <<stream_vars, parse_vars, process_result, single_vars,
                   agent_vars, handoff_vars, request_vars, index_vars>>

\* `return _agent_instance`, core.py line 230, streaming.py line 292
ReturnInstance(t) ==
    /\ threads[t].pc = "return"
    /\ returned' = [returned EXCEPT
                       ![threads[t].fn] = @ \cup {ModuleInstance(threads[t].fn)}]
    /\ threads' = [threads EXCEPT
                      ![t] = [fn |-> "none", pc |-> "idle",
                              ret |-> ModuleInstance(threads[t].fn)]]
    /\ UNCHANGED <<agents, instances, agent_instance, streaming_agent_instance,
                   next_id, built, last>>
    /\ UNCHANGED <<stream_vars, parse_vars, process_result, single_vars,
                   agent_vars, handoff_vars, request_vars, index_vars>>

\* The state the imports leave: three types registered, nothing constructed.
RegistryInit ==
    /\ agents = RegisteredTypes
    /\ instances = [t \in AgentTypes |-> 0]
    /\ agent_instance = 0
    /\ streaming_agent_instance = 0
    /\ next_id = 1
    /\ threads = [t \in Threads |-> NoThread]
    /\ built = [a \in Accessors |-> {}]
    /\ returned = [a \in Accessors |-> {}]
    /\ last = NoCall

\* ------------------------------------------------- entities and retrieval

\* A value of an entity's "name" or "id" key: missing, a string or a number.
Absent == [t |-> "absent", s |-> ""]
StrValue(x) == [t |-> "str", s |-> x]
IntValue(x) == [t |-> "int", s |-> x]

\* Entity metadata as indexed through /index-metadata (dict[str, Any]).
Entities ==
    {[name |-> n, id |-> i] :
        n \in {Absent, StrValue("users"), IntValue("42")},
        i \in {Absent, StrValue("e1")}}


\* What a similarity search comes to: it raises, or returns the raw metadata
\* of the documents found.
DocLists == {<<>>} \cup {<<e>> : e \in Entities}

SearchOutcomes == {[raised |-> r, docs |-> d] : r \in BOOLEAN, d \in DocLists}

FindRelatedEntities_IgnoreFailure(store, outcome) == outcome.docs

\* find_related_entities, core.py lines 98-110
FindRelatedEntities(store, outcome) ==
    IF store = "none" THEN <<>>
    ELSE IF outcome.raised THEN <<>>
    ELSE outcome.docs

\* _retrieve_relevant_metadata, persona.py lines 203-216
RetrieveRelevantMetadata(store, outcome) ==
    IF store = "none" THEN <<>>
    ELSE IF outcome.raised THEN <<>>
    ELSE outcome.docs

\* _retrieve_relevant_data, persona.py lines 234-247
RetrieveRelevantData(store, outcome) ==
    IF store = "none" THEN <<>>
    ELSE IF outcome.raised THEN <<>>
    ELSE outcome.docs

\* e.get("name", e.get("id", "unknown"))
EntityName(e) ==
    IF e.name.t # "absent" THEN e.name
    ELSE IF e.id.t # "absent" THEN e.id
    ELSE StrValue("unknown")

\* ', '.join(entity_names): TypeError unless every item is a string
JoinRaises(names) == \E i \in 1..Len(names) : names[i].t # "str"

RECURSIVE Join(_)
Join(names) ==
    IF names = <<>> THEN <<>>
    ELSE IF Len(names) = 1 THEN <<names[1].s>>
    ELSE <<names[1].s, ", ">> \o Join(Tail(names))

\* context_str, lines 168-172: empty without entities.
ContextStr(all_entities) ==
    IF all_entities = <<>> THEN <<>>
    ELSE <<"Existing related entities: ">>
            \o Join([i \in 1..Len(all_entities) |-> EntityName(all_entities[i])])

\* -------------------------------------- ModuleBuilderAgent.generate_template

\* The domain errors generate_template raises, and their HTTP status.
TypedErrors == {"LLMProviderError", "TemplateParsingError", "TemplateGenerationError"}

StatusCode(cls) ==
    CASE cls = "LLMProviderError" -> 502
      [] cls = "TemplateParsingError" -> 500
      [] cls = "TemplateGenerationError" -> 500

NoResult ==
    [kind |-> "none", cls |-> "", message |-> "", status |-> 0,
     template |-> NoTemplate]

Returned(template) ==
    [kind |-> "template", cls |-> "", message |-> "", status |-> 0,
     template |-> template]

DomainError(cls, message) ==
    [kind |-> "error", cls |-> cls, message |-> message,
     status |-> StatusCode(cls), template |-> NoTemplate]

\* An exception that leaves the method as it was raised.
RawError(exc) ==
    [kind |-> "raw", cls |-> exc.cls, message |-> exc.msg, status |-> 0,
     template |-> NoTemplate]

RaiseTyped_ProviderAsGeneration(exc) ==
    IF exc.cls = "OutputParserException"
    THEN DomainError("TemplateParsingError", ParsingMessage)
    ELSE DomainError("TemplateGenerationError", UnexpectedMessage)

\* The except clauses of generate_template, lines 194-204, in their order.
RaiseTyped(exc) ==
    IF exc.cls \in ProviderErrors
    THEN DomainError("LLMProviderError", ProviderMessage)
    ELSE IF exc.cls = "OutputParserException"
    THEN DomainError("TemplateParsingError", ParsingMessage)
    ELSE DomainError("TemplateGenerationError", UnexpectedMessage)

\* What self._llm.ainvoke comes to: a reply, or an exception of the client.
ReplyTexts == {<<"TA">>, <<"P">>, <<"TI">>, <<"FJ", "TB", "F">>, <<"TA", "P">>}

ModelOutcomes ==
    {[raised |-> FALSE, content |-> t, exc |-> NoException] : t \in ReplyTexts}
    \cup {[raised |-> TRUE, content |-> <<>>, exc |-> [cls |-> c, msg |-> m]] :
             c \in UpstreamErrors, m \in UpstreamTexts}

\* The exceptions PydanticOutputParser.parse and str.join raise.
ParseFailed == [cls |-> "OutputParserException", msg |-> "Failed to parse TemplateResponse"]
JoinFailed == [cls |-> "TypeError", msg |-> "expected str instance, int found"]

\* A list as its holder sees it: its items, and whether it is the very object
\* self._context_memory.
NoCopy == [items |-> <<>>, shared |-> FALSE]

CopyList_SameObject(list) == [items |-> list, shared |-> TRUE]

\* list.copy(): a new list with the same items
CopyList(list) == [items |-> list, shared |-> FALSE]

\* What the holder of a returned list can do to it.
Mutations ==
    {[kind |-> "append", entity |-> e] : e \in Entities}
    \cup {[kind |-> "clear", entity |-> [name |-> Absent, id |-> Absent]]}

\* The agent is a singleton and its methods run on the event loop: they are
\* called before generate_template, and by other callers while it waits for
\* the model (line 186).
ContextOpen ==
    /\ op \in {"none", "module-builder"}
    /\ \/ g_pc = "ready"
       \/ g_pc = "waiting" /\ wait_calls < MaxWaitCalls

CountWaitCall ==
    wait_calls' = IF g_pc = "waiting" THEN wait_calls + 1 ELSE wait_calls

\* add_to_context, line 120
AddToContext(entity) ==
    /\ ContextOpen
    /\ CountWaitCall
    /\ Len(context_memory) < MaxContext
    /\ context_memory' = Append(context_memory, entity)
    /\ added' = Append(added, entity)
    /\ ctx_call' = "add"
    /\ op' = "module-builder"
    /\ UNCHANGED <<store_vars, context_copy, gen_vars, cause, persona_vars,
                   http_response>>
    /\ UNCHANGED <<stream_vars, parse_vars, process_result, single_vars, handoff_vars, extra_vars>>

\* clear_context, line 132
ClearContext ==
    /\ ContextOpen
    /\ CountWaitCall
    /\ context_memory' = <<>>
    /\ added' = <<>>
    /\ ctx_call' = "clear"
    /\ op' = "module-builder"
    /\ UNCHANGED <<store_vars, context_copy, gen_vars, cause, persona_vars,
                   http_response>>
    /\ UNCHANGED <<stream_vars, parse_vars, process_result, single_vars, handoff_vars, extra_vars>>

\* get_context_entities, line 128
GetContextEntities ==
    /\ ContextOpen
    /\ CountWaitCall
    /\ context_copy' = CopyList(context_memory)
    /\ ctx_call' = "get"
    /\ op' = "module-builder"
    /\ UNCHANGED <<store_vars, context_memory, added, gen_vars, cause,
                   persona_vars, http_response>>
    /\ UNCHANGED <<stream_vars, parse_vars, process_result, single_vars, handoff_vars, extra_vars>>

\* The caller changes the list get_context_entities gave it; the agent's list
\* changes with it only when both are one object.
MutateCopy(mutation) ==
    /\ ContextOpen
    /\ CountWaitCall
    /\ ctx_call = "get"
    /\ mutation.kind = "append" => Len(context_copy.items) < MaxContext
    /\ LET mutated == IF mutation.kind = "append"
                      THEN Append(context_copy.items, mutation.entity)
                      ELSE <<>>
       IN  /\ context_copy' = [context_copy EXCEPT !.items = mutated]
           /\ context_memory' = IF context_copy.shared THEN mutated
                                ELSE context_memory
    /\ ctx_call' = "mutate"
    /\ UNCHANGED <<op, store_vars, added, gen_vars, cause, persona_vars,
                   http_response>>
    /\ UNCHANGED <<stream_vars, parse_vars, process_result, single_vars, handoff_vars, extra_vars>>

\* Lines 164-165: the related entities of the prompt and the context list.
\* From here to the model call of line 186 nothing suspends.
CollectEntities(outcome) ==
    /\ op \in {"none", "module-builder"}
    /\ g_pc = "ready"
    /\ op' = "module-builder"
    /\ related_entities' = FindRelatedEntities(metadata_store, outcome)
    /\ search' = IF metadata_store = "none" THEN "not_run"
                 ELSE IF outcome.raised THEN "raised" ELSE "ok"
    /\ context_copy' = CopyList(context_memory)
    /\ context_entities' = context_copy'
    /\ ctx_call' = "generate"
    /\ g_pc' = "collected"
    /\ UNCHANGED <<store_vars, context_memory, added, llm_calls, reply, g_result,
                   wait_calls, cause, persona_vars, http_response>>
    /\ UNCHANGED <<stream_vars, parse_vars, process_result, single_vars, handoff_vars, extra_vars>>

\* Lines 168-182: the context string and the messages, outside the try.
BuildMessages ==
    /\ g_pc = "collected"
    /\ LET all_entities == related_entities \o context_entities.items
           entity_names == [i \in 1..Len(all_entities) |-> EntityName(all_entities[i])]
       IN  IF JoinRaises(entity_names)
           THEN /\ g_pc' = "raised"
                /\ cause' = JoinFailed
                /\ g_result' = RawError(JoinFailed)
           ELSE /\ g_pc' = "built"
                /\ UNCHANGED <<cause, g_result>>
    /\ UNCHANGED <<op, store_vars, context_memory, ctx_vars, related_entities,
                   context_entities, search, llm_calls, reply, wait_calls,
                   persona_vars, http_response>>
    /\ UNCHANGED <<stream_vars, parse_vars, process_result, single_vars, handoff_vars, extra_vars>>

\* Line 186, the call: self._llm.ainvoke(messages) is made and generate_template
\* is suspended until the reply is there.
InvokeLlm ==
    /\ g_pc = "built"
    /\ llm_calls' = Append(llm_calls,
                           ContextStr(related_entities \o context_entities.items))
    /\ g_pc' = "waiting"
    /\ UNCHANGED <<op, store_vars, context_memory, ctx_vars, related_entities,
                   context_entities, search, reply, g_result, wait_calls, cause,
                   persona_vars, http_response>>
    /\ UNCHANGED <<stream_vars, parse_vars, process_result, single_vars, handoff_vars, extra_vars>>

\* Lines 186-204: the reply or the exception of the model call arrives; the
\* parse of the reply, the except clauses.
ParseReply(outcome) ==
    /\ g_pc = "waiting"
    /\ reply' = outcome.content
    /\ IF outcome.raised
       THEN /\ cause' = outcome.exc
            /\ g_result' = RaiseTyped(outcome.exc)
            /\ g_pc' = "raised"
       ELSE LET template == ParserParse(outcome.content)
            IN  IF template.ok
                THEN /\ g_result' = Returned(template.template)
                     /\ g_pc' = "returned"
                     /\ cause' = cause
                ELSE /\ cause' = ParseFailed
                     /\ g_result' = RaiseTyped(ParseFailed)
                     /\ g_pc' = "raised"
    /\ UNCHANGED <<op, store_vars, context_memory, ctx_vars, related_entities,
                   context_entities, search, llm_calls, wait_calls, persona_vars,
                   http_response>>
    /\ UNCHANGED <<stream_vars, parse_vars, process_result, single_vars, handoff_vars, extra_vars>>

\* ------------------------------------------------- PersonaAgent.process

NoResponse ==
    [type |-> "", id |-> "", name |-> "", existing_data |-> <<>>,
     explanation |-> <<>>]

\* FormViewResolution(...) rejecting a value that is not a string
ValidationFailed ==
    [cls |-> "ValidationError", msg |-> "1 validation error for FormViewResolution"]

\* The fallback response of lines 359-372.
FallbackResponse(e) ==
    [type |-> "view", id |-> "error", name |-> "Error", existing_data |-> <<>>,
     explanation |-> <<"Could not process request: ", e.msg>>]

\* best_match.get(key, default)
Get(value, default) == IF value.t = "absent" THEN StrValue(default) ELSE value

\* bool(best_match) of line 337: a dict is true when it has a key.
Truthy(entity) == entity.name.t # "absent" \/ entity.id.t # "absent"

\* _resolve_with_llm, lines 330-372: the response, and the exception the
\* except clause caught, if any.
ResolveWithLlm(forms, views, data, outcome) ==
    LET best == IF forms # <<>> THEN <<forms[1]>>
                ELSE IF views # <<>> THEN <<views[1]>> ELSE <<>>
        existing == IF data # <<>> THEN <<data[1]>> ELSE <<>>
    IN  IF outcome.raised
        THEN [response |-> FallbackResponse(outcome.exc), exc |-> outcome.exc]
        ELSE IF best = <<>> \/ ~Truthy(best[1])
        THEN [response |-> [type |-> "view", id |-> "default",
                            name |-> "Default View", existing_data |-> existing,
                            explanation |-> outcome.content],
              exc |-> NoException]
        ELSE IF Get(best[1].id, "unknown").t # "str"
                \/ Get(best[1].name, "Unknown").t # "str"
        THEN [response |-> FallbackResponse(ValidationFailed),
              exc |-> ValidationFailed]
        ELSE [response |-> [type |-> IF forms # <<>> THEN "form" ELSE "view",
                            id |-> Get(best[1].id, "unknown").s,
                            name |-> Get(best[1].name, "Unknown").s,
                            existing_data |-> existing,
                            explanation |-> outcome.content],
              exc |-> NoException]

\* What _load_stores leaves in _metadata_store and _data_store, lines 63-86:
\* each index was loaded, or could not be.
LoadOutcomes == {"none", "loaded"} \X {"none", "loaded"}

\* The outcomes of the search of the data index: it raises, or finds no record
\* or one.
DataOutcomes ==
    {[raised |-> r, docs |-> d] :
        r \in BOOLEAN, d \in {<<>>, <<[name |-> Absent, id |-> StrValue("e1")]>>}}

\* The two stores of the agent get_agent("persona") returns: those of the
\* agent the registry holds, or what the __init__ of the one it constructs
\* loads.
PersonaStores ==
    IF instances["persona"] = 0 THEN LoadOutcomes
    ELSE {<<metadata_store, data_store>>}

\* resolve_intent, persona_routes.py lines 42-43, and PersonaAgent.process,
\* lines 258-282 and 311-331: get_agent, the three retrievals, the messages
\* and the model call, at which process is suspended. The retrievals await
\* nothing that suspends.
PersonaProcess ==
    /\ op = "none"
    /\ persona_pc = "ready"
    /\ op' = "persona"
    /\ persona_pc' = "waiting"
    /\ GetAgentCall("persona")
    /\ \E loaded \in PersonaStores, fo, vo \in SearchOutcomes, do \in DataOutcomes :
        /\ metadata_store' = loaded[1]
        /\ data_store' = loaded[2]
        /\ persona_retrieved' =
              [forms |-> RetrieveRelevantMetadata(loaded[1], fo),
               views |-> RetrieveRelevantMetadata(loaded[1], vo),
               data |-> RetrieveRelevantData(loaded[2], do),
               raised |-> {x \in {"forms", "views", "data"} :
                              \/ x = "forms" /\ loaded[1] # "none" /\ fo.raised
                              \/ x = "views" /\ loaded[1] # "none" /\ vo.raised
                              \/ x = "data" /\ loaded[2] # "none" /\ do.raised},
               stores |-> loaded]
    /\ UNCHANGED <<context_memory, ctx_vars, gen_vars, wait_calls, cause,
                   persona_response, http_response>>
    /\ UNCHANGED <<stream_vars, parse_vars, process_result, single_vars, handoff_vars, request_vars, index_vars>>

\* Lines 331-372 and 288: the reply or the exception of the model call
\* arrives, the response is built from the lists retrieved before the wait.
PersonaResolve(outcome) ==
    /\ persona_pc = "waiting"
    /\ persona_pc' = "returned"
    /\ LET resolution == ResolveWithLlm(persona_retrieved.forms,
                                        persona_retrieved.views,
                                        persona_retrieved.data, outcome)
       IN  /\ persona_response' = resolution.response
           /\ cause' = resolution.exc
    /\ UNCHANGED <<op, store_vars, context_memory, ctx_vars, gen_vars, wait_calls,
                   persona_retrieved, http_response>>
    /\ UNCHANGED <<stream_vars, parse_vars, process_result, single_vars, handoff_vars, extra_vars>>

\* --------------------------------------------- the persona indexing routes

NoHttp == [status |-> 0, detail |-> <<>>, id |-> "", exc |-> NoException]

\* agent.index_metadata / agent.index_data: done, or an exception raised
\* while embedding the document or while saving the index. The routes catch
\* Exception: the class of what was raised makes no difference to them.
IndexOutcomes ==
    {[raised |-> FALSE, stage |-> "", exc |-> NoException]}
    \cup {[raised |-> TRUE, stage |-> st, exc |-> [cls |-> "ValueError", msg |-> m]] :
             st \in {"embed", "save"}, m \in UpstreamTexts}

\* The store attribute after index_metadata / index_data.
Indexed(store, outcome) ==
    IF outcome.raised /\ outcome.stage = "embed" THEN store ELSE "loaded"

\* metadata_type of a MetadataIndexRequest, entity_type of a DataIndexRequest.
RequestTypes(kind) ==
    IF kind = "metadata" THEN {"form", "entity"} ELSE {"customer"}

\* The "id" member of the metadata or of the data record of the request.
RequestIds == {Absent, StrValue("m1"), IntValue("5")}

\* MetadataIndexResponse(...) / DataIndexResponse(...) rejecting an id that is
\* not a string
ResponseInvalid(kind) ==
    [cls |-> "ValidationError",
     msg |-> IF kind = "metadata"
             THEN "1 validation error for MetadataIndexResponse"
             ELSE "1 validation error for DataIndexResponse"]

\* The response of lines 64-75 and 96-107, given what the agent call came to.
IndexResponse(kind, type_name, id, outcome) ==
    LET exc == IF outcome.raised THEN outcome.exc
               ELSE IF Get(id, "unknown").t # "str" THEN ResponseInvalid(kind)
               ELSE NoException
    IN  IF exc # NoException
        THEN [status |-> 500, detail |-> <<"Failed to index ", kind, ": ", exc.msg>>,
              id |-> "", exc |-> exc]
        ELSE [status |-> 201,
              detail |-> <<"Successfully indexed ", type_name, " ", kind>>,
              id |-> Get(id, "unknown").s, exc |-> NoException]

\* index_metadata and index_data of persona_routes.py, lines 53-75 and 85-107:
\* get_agent, which constructs the persona agent when the registry has none
\* (its __init__ loads the two indexes, or cannot), the agent call, the
\* response. The agent call awaits nothing that suspends. The request is the
\* one of the run, or one handled while PersonaAgent.process waits for the
\* model.
IndexRoute(kind, type_name, id, outcome) ==
    /\ op = "none" \/ persona_pc = "waiting"
    /\ http_response = NoHttp
    /\ op' = IF op = "none" THEN "index" ELSE op
    /\ GetAgentCall("persona")
    /\ \E loaded \in PersonaStores :
        /\ metadata_store' =
               IF kind = "metadata" THEN Indexed(loaded[1], outcome) ELSE loaded[1]
        /\ data_store' =
               IF kind = "data" THEN Indexed(loaded[2], outcome) ELSE loaded[2]
    /\ http_response' = IndexResponse(kind, type_name, id, outcome)
    /\ UNCHANGED <<context_memory, ctx_vars, gen_vars, wait_calls, cause,
                   persona_vars>>
    /\ UNCHANGED <<stream_vars, parse_vars, process_result, single_vars, handoff_vars, request_vars, index_vars>>

\* ------------------------------------ StreamingModuleBuilderAgent.process

\* process has not come to anything yet.
NoProcessResult ==
    [kind |-> "none", cls |-> "", message |-> "", template |-> NoTemplate,
     explanation |-> ""]

NoTemplateMessage == "Stream completed without generating a template"

\* The TEMPLATE events the loop has seen.
CountTemplates == Cardinality({i \in 1..Len(events) : events[i].event_type = TEMPLATE})

\* Lines 76-81: the loop body on the TEMPLATE event. model_validate is given
\* event.data, the dump of the whole StreamingTemplateResponse.
ProcessTemplateEvent ==
    /\ pc = "template_yielded"
    /\ process_result.kind = "none"
    /\ LET validated == ModelValidate(events[Len(events)].data)
       IN  IF validated.ok
           THEN /\ process_result' =
                       [kind |-> "final_response", cls |-> "", message |-> "",
                        template |-> validated.template,
                        explanation |-> "Generated via streaming."]
                /\ pc' = pc
           ELSE /\ process_result' =
                       [kind |-> "raw", cls |-> "ValidationError",
                        message |-> "3 validation errors for TemplateResponse",
                        template |-> NoTemplate, explanation |-> ""]
                /\ pc' = "closed"
    /\ UNCHANGED <<current_mode, accumulated_content, events, fragments, upstream,
                   raised, parse_calls, parse_vars, single_vars, agent_vars, handoff_vars, extra_vars>>

\* Lines 83-86: the stream is exhausted.
ProcessStreamEnd ==
    /\ pc = "finished"
    /\ process_result.kind \in {"none", "final_response"}
    /\ process_result.kind = "none" => CountTemplates = 0
    /\ process_result' =
           IF process_result.kind = "final_response"
           THEN [process_result EXCEPT !.kind = "returned"]
           ELSE [kind |-> "error", cls |-> "TemplateParsingError",
                 message |-> NoTemplateMessage, template |-> NoTemplate,
                 explanation |-> ""]
    /\ UNCHANGED <<stream_vars, parse_vars, single_vars, agent_vars, handoff_vars, extra_vars>>

\* -------------------------------------------- the single-shot parse alone

NotParsed == [ok |-> FALSE, template |-> NoTemplate]

\* core.py line 189 on the reply _parse_response was given.
CallParserParse ==
    /\ p_pc = "parsed"
    /\ s_pc = "input"
    /\ s_result' = ParserParse(p_content)
    /\ s_pc' = "parsed"
    /\ UNCHANGED <<stream_vars, parse_vars, process_result, agent_vars, handoff_vars, extra_vars>>

\* ------------------------------- the generator and the route that reads it

\* An event as its consumer sees it: the fragment it is the event of
\* (0 for the events after the loop) and its data.
Handed(k, data) == [k |-> k, data |-> data]

\* streaming_routes.py line 81: event_generator asks for the next event, and
\* the generator runs from where it was suspended.
AskNext ==
    /\ h_consumer = "ready"
    /\ h_gen \in {"created", "suspended"}
    /\ h_consumer' = "awaiting"
    /\ h_gen' = "running"
    /\ UNCHANGED <<h_fragments, h_handed, h_frames>>
    /\ UNCHANGED <<stream_vars, parse_vars, process_result, single_vars, agent_vars, extra_vars>>

PullFragment_Buffered(chunk) ==
    /\ h_gen = "running"
    /\ Len(h_fragments) < MaxChunks
    /\ h_fragments' = Append(h_fragments, ChunkContent(chunk))
    /\ UNCHANGED <<h_gen, h_consumer, h_handed, h_frames>>
    /\ UNCHANGED <<stream_vars, parse_vars, process_result, single_vars, agent_vars, extra_vars>>

\* streaming.py lines 132-155: the loop pulls a chunk; an empty one sends it
\* round again, any other is yielded, which suspends the generator and hands
\* the event to the consumer.
PullFragment(chunk) ==
    /\ h_gen = "running"
    /\ Len(h_fragments) < MaxChunks
    /\ h_fragments' = Append(h_fragments, ChunkContent(chunk))
    /\ IF ChunkContent(chunk) = <<>>
       THEN UNCHANGED <<h_gen, h_consumer, h_handed>>
       ELSE /\ h_gen' = "suspended"
            /\ h_handed' = Append(h_handed,
                   Handed(Len(h_fragments'), ChunkContent(chunk)))
            /\ h_consumer' = "holding"
    /\ UNCHANGED h_frames
    /\ UNCHANGED <<stream_vars, parse_vars, process_result, single_vars, agent_vars, extra_vars>>

\* Lines 157-164 and 177-199: the stream is over, by exhaustion or by an
\* exception; the TEMPLATE or the ERROR event is yielded.
StreamOver(type) ==
    /\ h_gen = "running"
    /\ h_handed' = Append(h_handed, Handed(0, <<type>>))
    /\ h_gen' = IF type = TEMPLATE THEN "template_yielded" ELSE "error_yielded"
    /\ h_consumer' = "holding"
    /\ UNCHANGED <<h_fragments, h_frames>>
    /\ UNCHANGED <<stream_vars, parse_vars, process_result, single_vars, agent_vars, extra_vars>>

\* Lines 166-170, asked for by the consumer after the TEMPLATE event.
AskAfterTemplate ==
    /\ h_consumer = "ready"
    /\ h_gen = "template_yielded"
    /\ h_handed' = Append(h_handed, Handed(0, <<DONE>>))
    /\ h_gen' = "done_yielded"
    /\ h_consumer' = "holding"
    /\ UNCHANGED <<h_fragments, h_frames>>
    /\ UNCHANGED <<stream_vars, parse_vars, process_result, single_vars, agent_vars, extra_vars>>

\* The generator returns; the async for of the route ends.
AskAtEnd ==
    /\ h_consumer = "ready"
    /\ h_gen \in {"done_yielded", "error_yielded"}
    /\ h_gen' = "finished"
    /\ h_consumer' = "finished"
    /\ UNCHANGED <<h_fragments, h_handed, h_frames>>
    /\ UNCHANGED <<stream_vars, parse_vars, process_result, single_vars, agent_vars, extra_vars>>

\* streaming_routes.py line 82: the frame of the event just received.
SendFrame ==
    /\ h_consumer = "holding"
    /\ h_frames' = Append(h_frames, h_handed[Len(h_handed)])
    /\ h_consumer' = "ready"
    /\ UNCHANGED <<h_gen, h_fragments, h_handed>>
    /\ UNCHANGED <<stream_vars, parse_vars, process_result, single_vars, agent_vars, extra_vars>>

HandoffIdle ==
    /\ h_gen = "idle"
    /\ h_consumer = "idle"
    /\ h_fragments = <<>>
    /\ h_handed = <<>>
    /\ h_frames = <<>>

\* The route has called generate_template_stream; nothing has run yet.
HandoffInit ==
    /\ h_gen = "created"
    /\ h_consumer = "ready"
    /\ h_fragments = <<>>
    /\ h_handed = <<>>
    /\ h_frames = <<>>

\* ------------------------------------------------- validation of a request

\* max_length of GenerateRequest.prompt
MaxPromptLength == 4000

\* The endpoints that take a GenerateRequest body.
Routes ==
    {"/generate", "/api/v1/metadata/generate-stream",
     "/api/v1/module-builder/generate", "/api/v1/module-builder/generate-stream"}

\* The endpoints that answer with a response whose body is an event generator.
StreamingRoutes ==
    {"/api/v1/metadata/generate-stream", "/api/v1/module-builder/generate-stream"}

\* The agent type a module-builder endpoint asks the registry for.
RouteAgentType(route) ==
    IF route = "/api/v1/module-builder/generate" THEN "module-builder"
    ELSE "module-builder-streaming"

\* What the endpoint function calls on its agent before it returns: the
\* streaming endpoints return their response without a call.
EndpointCall(route) ==
    IF route = "/api/v1/module-builder/generate" THEN <<"generate_template">>
    ELSE <<>>

\* The "prompt" member of the body: missing, not a string, or a string, of
\* which only the length matters to the validation.
PromptLengths ==
    {0, 1, 2, MaxPromptLength - 1, MaxPromptLength, MaxPromptLength + 1,
     MaxPromptLength + 1000}

Prompts ==
    {[t |-> "absent", len |-> 0], [t |-> "int", len |-> 0]}
    \cup {[t |-> "str", len |-> n] : n \in PromptLengths}

\* The validation of the body against GenerateRequest: the errors found.
ValidatePrompt(prompt) ==
    IF prompt.t = "absent"
    THEN <<[type |-> "missing", loc |-> <<"body", "prompt">>,
            msg |-> "Field required"]>>
    ELSE IF prompt.t # "str"
    THEN <<[type |-> "string_type", loc |-> <<"body", "prompt">>,
            msg |-> "Input should be a valid string"]>>
    ELSE IF prompt.len < 1
    THEN <<[type |-> "string_too_short", loc |-> <<"body", "prompt">>,
            msg |-> "String should have at least 1 character"]>>
    ELSE IF prompt.len > MaxPromptLength
    THEN <<[type |-> "string_too_long", loc |-> <<"body", "prompt">>,
            msg |-> "String should have at most 4000 characters"]>>
    ELSE <<>>

\* ".".join(str(loc) for loc in error["loc"] if loc != "body"), as the list
\* of the joined pieces.
RECURSIVE FieldPath(_)
FieldPath(loc) ==
    IF loc = <<>> THEN <<>>
    ELSE IF loc[1] = "body" THEN FieldPath(Tail(loc))
    ELSE IF FieldPath(Tail(loc)) = <<>> THEN <<loc[1]>>
    ELSE <<loc[1], ".">> \o FieldPath(Tail(loc))

\* f"{field}: {message}" if field else message, as the list of its pieces
ErrorDetail(error) ==
    LET field == FieldPath(error["loc"])
    IN  IF field # <<>> THEN field \o <<": ", error["msg"]>>
        ELSE <<error["msg"]>>

\* "; ".join(error_details), as the list of the joined pieces
RECURSIVE JoinDetails(_)
JoinDetails(error_details) ==
    IF error_details = <<>> THEN <<>>
    ELSE IF Len(error_details) = 1 THEN error_details[1]
    ELSE error_details[1] \o <<"; ">> \o JoinDetails(Tail(error_details))

\* ProblemDetails(type, title, status, detail, instance): the members the
\* handlers give a problem object.
create_problem_details(path, problem_type, title, status_code, detail) ==
    [type |-> <<"https://api.dilcore.ai/problems", "/", problem_type>>,
     title |-> title,
     status |-> status_code,
     detail |-> detail,
     instance |-> path]

NoReply == [status_code |-> 0, content |-> [status |-> 0]]

\* The dependencies of the route are solved before the body is validated:
\* get_streaming_agent of /api/v1/metadata/generate-stream is a sync function,
\* started in a worker thread, where it calls create_streaming_template_agent.
SolveDependencies ==
    /\ rq_pc = "received"
    /\ IF rq_route = "/api/v1/metadata/generate-stream"
       THEN /\ \E t \in Threads :
                  /\ threads[t].fn = "none"
                  /\ threads' = [threads EXCEPT
                                    ![t] = [fn |-> "create_streaming_template_agent",
                                            pc |-> "test", ret |-> 0]]
            /\ rq_calls' = Append(rq_calls, "create_streaming_template_agent")
            /\ rq_pc' = "solving"
       ELSE /\ UNCHANGED <<threads, rq_calls>>
            /\ rq_pc' = "solved"
    /\ UNCHANGED <<rq_route, rq_prompt, rq_errors, rq_response>>
    /\ UNCHANGED <<agents, instances, agent_instance, streaming_agent_instance,
                   next_id, built, returned, last>>
    /\ UNCHANGED <<stream_vars, parse_vars, process_result, single_vars,
                   agent_vars, handoff_vars, index_vars>>

\* The body is validated against GenerateRequest.
ValidateBody ==
    /\ \/ rq_pc = "solved"
       \/ rq_pc = "solving" /\ \A t \in Threads : threads[t].fn = "none"
    /\ rq_errors' = ValidatePrompt(rq_prompt)
    /\ rq_pc' = IF rq_errors' = <<>> THEN "valid" ELSE "invalid"
    /\ UNCHANGED <<rq_route, rq_prompt, rq_response, rq_calls>>
    /\ UNCHANGED <<stream_vars, parse_vars, process_result, single_vars,
                   agent_vars, handoff_vars, registry_vars, index_vars>>

\* validation_exception_handler, the handler setup_exception_handlers installs
\* for RequestValidationError: a 422 JSONResponse whose content is the problem
\* object, the fields and messages of the errors joined into its detail.
ValidationExceptionHandler ==
    /\ rq_pc = "invalid"
    /\ LET error_details == [i \in 1..Len(rq_errors) |-> ErrorDetail(rq_errors[i])]
           detail == <<"Request validation failed: ">> \o JoinDetails(error_details)
       IN  rq_response' =
               [status_code |-> 422,
                content |-> create_problem_details(
                                rq_route, "validation-error",
                                "Request Validation Error", 422, detail)]
    /\ rq_pc' = "answered"
    /\ UNCHANGED <<rq_route, rq_prompt, rq_errors, rq_calls>>
    /\ UNCHANGED <<stream_vars, parse_vars, process_result, single_vars,
                   agent_vars, handoff_vars, registry_vars, index_vars>>

\* The endpoint function runs on a valid body: a module-builder endpoint gets
\* its agent from the registry (module_builder_routes.py lines 36, 55); the
\* non-streaming one calls generate_template, a streaming one returns its
\* response, and /generate answers without an agent.
RunEndpoint ==
    /\ rq_pc = "valid"
    /\ IF rq_route \in {"/api/v1/module-builder/generate",
                        "/api/v1/module-builder/generate-stream"}
       THEN GetAgentCall(RouteAgentType(rq_route))
       ELSE UNCHANGED registry_vars
    /\ rq_calls' = rq_calls \o EndpointCall(rq_route)
    /\ rq_pc' = IF rq_route \in StreamingRoutes THEN "responding" ELSE "running"
    /\ UNCHANGED <<rq_route, rq_prompt, rq_errors, rq_response>>
    /\ UNCHANGED <<stream_vars, parse_vars, process_result, single_vars,
                   agent_vars, handoff_vars, index_vars>>

\* The framework iterates the body of the streaming response: event_generator
\* starts and calls generate_template_stream.
IterateBody ==
    /\ rq_pc = "responding"
    /\ rq_calls' = Append(rq_calls, "generate_template_stream")
    /\ rq_pc' = "streaming"
    /\ UNCHANGED <<rq_route, rq_prompt, rq_errors, rq_response>>
    /\ UNCHANGED <<stream_vars, parse_vars, process_result, single_vars,
                   agent_vars, handoff_vars, registry_vars, index_vars>>

RequestRest ==
    /\ rq_errors = <<>>
    /\ rq_response = NoReply
    /\ rq_calls = <<>>

RequestIdle ==
    /\ rq_pc = "idle"
    /\ rq_route = ""
    /\ rq_prompt = [t |-> "absent", len |-> 0]
    /\ RequestRest

\* A request has arrived.
RequestInit ==
    /\ rq_pc = "received"
    /\ rq_route \in Routes
    /\ rq_prompt \in Prompts
    /\ RequestRest

\* ------------------------------------------- the saved and the loaded indexes

\* top_k of find_related_entities
TopK == 5

IndexKinds == {"metadata", "data"}

\* A document: the number it was indexed under and its type.
DocTypes(kind) == IF kind = "metadata" THEN {"entity", "form"} ELSE {"record"}

\* An index file: absent, or holding documents.
NoFile == [exists |-> FALSE, docs |-> {}]

\* A store attribute: None, or a FAISS object holding documents.
NoStore == [loaded |-> FALSE, docs |-> {}]

\* FAISS.load_local inside try/except: the store, or None when it raised.
LoadLocal(file, load_raised) ==
    IF file.exists /\ ~load_raised THEN [loaded |-> TRUE, docs |-> file.docs]
    ELSE NoStore

\* FAISS.from_documents([doc], ...)
FromDocuments(doc) == {doc}

AddDocuments_Replace(docs, doc) == {doc}

\* store.add_documents([doc])
AddDocuments(docs, doc) == docs \cup {doc}

\* store.save_local(path): the file holds what the store holds.
SaveLocal(store) == [exists |-> TRUE, docs |-> store.docs]

Searchable_SharedStore(own, other) ==
    {d \in own.docs \cup other.docs : d.type = "entity"}

\* What self._metadata_store.similarity_search(..., filter={"type": "entity"})
\* of the module-builder agent can find: documents of its own store.
Searchable(own, other) ==
    IF own.loaded THEN {d \in own.docs : d.type = "entity"} ELSE {}

NoIndexResult == [called |-> FALSE, ok |-> FALSE, doc |-> [n |-> 0, type |-> ""],
                  before |-> {}]

NotSearched == [searched |-> FALSE, at |-> 0, docs |-> {}]

\* PersonaAgent.__init__ and _load_stores, lines 40-86
ConstructPersona(metadata_raised, data_raised) ==
    /\ ~persona_index.constructed
    /\ persona_index' =
           [constructed |-> TRUE,
            metadata |-> LoadLocal(saved_index["metadata"], metadata_raised),
            data |-> LoadLocal(saved_index["data"], data_raised)]
    /\ UNCHANGED <<saved_index, builder_index, loaded_docs, found, index_result,
                   next_doc>>
    /\ UNCHANGED <<stream_vars, parse_vars, process_result, single_vars,
                   agent_vars, handoff_vars, registry_vars, request_vars>>

\* ModuleBuilderAgent.__init__ and _load_metadata_store, lines 46-81
ConstructModuleBuilder(load_raised) ==
    /\ ~builder_index.constructed
    /\ builder_index' =
           [constructed |-> TRUE,
            store |-> LoadLocal(saved_index["metadata"], load_raised)]
    /\ loaded_docs' = LoadLocal(saved_index["metadata"], load_raised)
    /\ UNCHANGED <<saved_index, persona_index, found, index_result, next_doc>>
    /\ UNCHANGED <<stream_vars, parse_vars, process_result, single_vars,
                   agent_vars, handoff_vars, registry_vars, request_vars>>

\* Lines 114-118 and 146-149: create the store from the document, or extend it.
Extended(store, doc) ==
    [loaded |-> TRUE,
     docs |-> IF store.loaded THEN AddDocuments(store.docs, doc)
              ELSE FromDocuments(doc)]

IndexOutcomeKinds == {"ok", "embed_raised", "save_raised"}

\* PersonaAgent.index_metadata, lines 93-122. outcome: "ok", or the step
\* that raised.
IndexMetadata(metadata_type, outcome) ==
    LET store == persona_index["metadata"]
        doc == [n |-> next_doc, type |-> metadata_type]
    IN  /\ persona_index.constructed
        /\ next_doc <= MaxDocs
        /\ next_doc' = next_doc + 1
        /\ persona_index' =
               IF outcome = "embed_raised" THEN persona_index
               ELSE [persona_index EXCEPT !["metadata"] = Extended(store, doc)]
        /\ saved_index' =
               IF outcome = "ok"
               THEN [saved_index EXCEPT
                        !["metadata"] = SaveLocal(Extended(store, doc))]
               ELSE saved_index
        /\ index_result' =
               [index_result EXCEPT
                   !["metadata"] = [called |-> TRUE, ok |-> outcome = "ok",
                                    doc |-> doc, before |-> store.docs]]
        /\ UNCHANGED <<builder_index, loaded_docs, found>>
        /\ UNCHANGED <<stream_vars, parse_vars, process_result, single_vars,
                       agent_vars, handoff_vars, registry_vars, request_vars>>

\* PersonaAgent.index_data, lines 124-153
IndexData(outcome) ==
    LET store == persona_index["data"]
        doc == [n |-> next_doc, type |-> "record"]
    IN  /\ persona_index.constructed
        /\ next_doc <= MaxDocs
        /\ next_doc' = next_doc + 1
        /\ persona_index' =
               IF outcome = "embed_raised" THEN persona_index
               ELSE [persona_index EXCEPT !["data"] = Extended(store, doc)]
        /\ saved_index' =
               IF outcome = "ok"
               THEN [saved_index EXCEPT !["data"] = SaveLocal(Extended(store, doc))]
               ELSE saved_index
        /\ index_result' =
               [index_result EXCEPT
                   !["data"] = [called |-> TRUE, ok |-> outcome = "ok",
                                doc |-> doc, before |-> store.docs]]
        /\ UNCHANGED <<builder_index, loaded_docs, found>>
        /\ UNCHANGED <<stream_vars, parse_vars, process_result, single_vars,
                       agent_vars, handoff_vars, registry_vars, request_vars>>

\* The documents any index holds.
KnownDocs ==
    saved_index["metadata"].docs \cup persona_index["metadata"].docs
        \cup builder_index.store.docs

\* ModuleBuilderAgent.find_related_entities, lines 88-110: the search raises,
\* or returns up to top_k of the documents it can find.
FindRelated(search_raised) ==
    /\ builder_index.constructed
    /\ \E picked \in SUBSET KnownDocs :
        /\ Cardinality(picked) <= TopK
        /\ found' =
               [searched |-> TRUE, at |-> next_doc,
                docs |-> IF search_raised THEN {}
                         ELSE picked \cap Searchable(builder_index.store,
                                                     persona_index["metadata"])]
    /\ UNCHANGED <<saved_index, persona_index, builder_index, loaded_docs,
                   index_result, next_doc>>
    /\ UNCHANGED <<stream_vars, parse_vars, process_result, single_vars,
                   agent_vars, handoff_vars, registry_vars, request_vars>>

IndexRest ==
    /\ persona_index = [constructed |-> FALSE, metadata |-> NoStore, data |-> NoStore]
    /\ builder_index = [constructed |-> FALSE, store |-> NoStore]
    /\ loaded_docs = NoStore
    /\ found = NotSearched
    /\ index_result = [kind \in IndexKinds |-> NoIndexResult]
    /\ next_doc = 1

IndexIdle ==
    /\ saved_index = [kind \in IndexKinds |-> NoFile]
    /\ IndexRest

\* Before any agent is constructed: each index file is absent, or was saved
\* by an earlier run.
IndexInit ==
    /\ \E metadata_file \in {NoFile, SaveLocal([docs |-> {[n |-> 0, type |-> "entity"]}])},
          data_file \in {NoFile, SaveLocal([docs |-> {[n |-> 0, type |-> "record"]}])} :
           saved_index = [kind \in IndexKinds |->
                             IF kind = "metadata" THEN metadata_file ELSE data_file]
    /\ IndexRest

ExtraIdle == RegistryInit /\ RequestIdle /\ IndexIdle

ProcessIdle == process_result = NoProcessResult

SingleIdle == s_pc = "idle" /\ s_result = NotParsed

SingleInit == s_pc = "input" /\ s_result = NotParsed

AgentRest ==
    /\ context_memory = <<>>
    /\ added = <<>>
    /\ context_copy = NoCopy
    /\ ctx_call = "none"
    /\ related_entities = <<>>
    /\ context_entities = NoCopy
    /\ search = "not_run"
    /\ llm_calls = <<>>
    /\ reply = <<>>
    /\ g_result = NoResult
    /\ cause = NoException
    /\ wait_calls = 0
    /\ persona_retrieved = [forms |-> <<>>, views |-> <<>>, data |-> <<>>,
                            raised |-> {}, stores |-> <<"none", "none">>]
    /\ persona_response = NoResponse
    /\ http_response = NoHttp

AgentIdle ==
    /\ op = "idle"
    /\ g_pc = "idle"
    /\ persona_pc = "idle"
    /\ metadata_store = "none"
    /\ data_store = "none"
    /\ AgentRest

\* The module-builder agent after its construction: its index was loaded, or
\* could not be. The registry has constructed no agent yet: the persona agent
\* comes with the first request to a persona route.
AgentInit ==
    /\ op = "none"
    /\ g_pc = "ready"
    /\ persona_pc = "ready"
    /\ metadata_store \in {"none", "loaded"}
    /\ data_store = "none"
    /\ AgentRest

Init ==
    StreamInit /\ ParseIdle /\ ProcessIdle /\ SingleIdle /\ AgentIdle /\ HandoffIdle
    /\ ExtraIdle

Next ==
    \/ \E chunk \in Chunks : ConsumeChunk(chunk)
    \/ UpstreamEnds
    \/ \E cls \in UpstreamErrors, msg \in UpstreamTexts :
           UpstreamRaises([cls |-> cls, msg |-> msg])
    \/ YieldDone
    \/ Finish
    \/ ProcessTemplateEvent
    \/ ProcessStreamEnd

Spec == Init /\ [][Next]_vars

ParseSpecInit ==
    ParseInit /\ StreamIdle /\ ProcessIdle /\ SingleInit /\ AgentIdle /\ HandoffIdle
    /\ ExtraIdle

ParseNext ==
    \/ \E t \in Tokens : AppendToken(t)
    \/ CallParseResponse
    \/ CallParserParse

ParseSpec == ParseSpecInit /\ [][ParseNext]_vars

AgentSpecInit ==
    AgentInit /\ StreamIdle /\ ParseIdle /\ ProcessIdle /\ SingleIdle /\ HandoffIdle
    /\ ExtraIdle

AgentNext ==
    \/ \E entity \in Entities : AddToContext(entity)
    \/ ClearContext
    \/ GetContextEntities
    \/ \E mutation \in Mutations : MutateCopy(mutation)
    \/ \E outcome \in SearchOutcomes : CollectEntities(outcome)
    \/ BuildMessages
    \/ InvokeLlm
    \/ \E outcome \in ModelOutcomes : ParseReply(outcome)
    \/ PersonaProcess
    \/ \E outcome \in ModelOutcomes : PersonaResolve(outcome)
    \/ \E kind \in {"metadata", "data"}, id \in RequestIds, outcome \in IndexOutcomes :
           \E type_name \in RequestTypes(kind) :
               IndexRoute(kind, type_name, id, outcome)

AgentSpec == AgentSpecInit /\ [][AgentNext]_vars

HandoffSpecInit ==
    HandoffInit /\ StreamIdle /\ ParseIdle /\ ProcessIdle /\ SingleIdle /\ AgentIdle
    /\ ExtraIdle

HandoffNext ==
    \/ AskNext
    \/ \E chunk \in Chunks : PullFragment(chunk)
    \/ \E type \in {TEMPLATE, ERROR} : StreamOver(type)
    \/ AskAfterTemplate
    \/ AskAtEnd
    \/ SendFrame

HandoffSpec == HandoffSpecInit /\ [][HandoffNext]_vars

OthersIdle ==
    StreamIdle /\ ParseIdle /\ ProcessIdle /\ SingleIdle /\ AgentIdle /\ HandoffIdle

RegistrySpecInit == RegistryInit /\ RequestIdle /\ IndexIdle /\ OthersIdle

RegistryNext ==
    \/ \E agent_type \in AgentTypes : Register(agent_type)
    \/ \E agent_type \in AgentTypes : GetAgent(agent_type)
    \/ ClearInstances
    \/ \E fn \in Factories : ResetModuleVariable(fn)
    \/ \E t \in Threads, fn \in Factories : EnterFactory(t, fn)
    \/ \E t \in Threads : TestInstance(t)
    \/ \E t \in Threads : ConstructInstance(t)
    \/ \E t \in Threads : ReturnInstance(t)

RegistrySpec == RegistrySpecInit /\ [][RegistryNext]_vars

RequestSpecInit == RequestInit /\ RegistryInit /\ IndexIdle /\ OthersIdle

RequestNext ==
    \/ SolveDependencies
    \/ \E t \in Threads : TestInstance(t)
    \/ \E t \in Threads : ConstructInstance(t)
    \/ \E t \in Threads : ReturnInstance(t)
    \/ ValidateBody
    \/ ValidationExceptionHandler
    \/ RunEndpoint
    \/ IterateBody

RequestSpec == RequestSpecInit /\ [][RequestNext]_vars

IndexSpecInit == IndexInit /\ RegistryInit /\ RequestIdle /\ OthersIdle

IndexNext ==
    \/ \E metadata_raised, data_raised \in BOOLEAN :
           ConstructPersona(metadata_raised, data_raised)
    \/ \E load_raised \in BOOLEAN : ConstructModuleBuilder(load_raised)
    \/ \E metadata_type \in DocTypes("metadata"), outcome \in IndexOutcomeKinds :
           IndexMetadata(metadata_type, outcome)
    \/ \E outcome \in IndexOutcomeKinds : IndexData(outcome)
    \/ \E search_raised \in BOOLEAN : FindRelated(search_raised)

IndexSpec == IndexSpecInit /\ [][IndexNext]_vars

\* ------------------------------------------------------------------ claims

IsChunkEvent(e) == e.event_type \in {THINKING, CONTENT}

IsTerminalEvent(e) == e.event_type \in {TEMPLATE, DONE, ERROR}

HasText(f) == f.text # <<>>

\* The per-fragment events among the events yielded, and the fragments that
\* had any text.
ChunkEvents == SelectSeq(events, IsChunkEvent)

NonEmptyFragments == SelectSeq(fragments, HasText)

CountOf(type) == Cardinality({i \in 1..Len(events) : events[i].event_type = type})

RECURSIVE Concat(_)
Concat(texts) == IF texts = <<>> THEN <<>> ELSE Head(texts) \o Concat(Tail(texts))

EventTexts(evs) == [i \in 1..Len(evs) |-> evs[i].data]

FragmentTexts(fs) == [i \in 1..Len(fs) |-> fs[i].text]

\* The run failed: the upstream stream raised, or the terminal parse did.
RunFailed ==
    \/ upstream = "raised"
    \/ upstream = "ended" /\ ~ParseResponse(accumulated_content).ok

\* C1: when the upstream stream ends normally and the accumulated text parses
\* into a valid template, no ERROR event is ever emitted, and the finished
\* stream is the per-fragment THINKING/CONTENT events, then one TEMPLATE event
\* carrying the parsed result, then one DONE event as the last event.
C1_SuccessSequence ==
    (upstream = "ended" /\ ParseResponse(accumulated_content).ok) =>
        /\ CountOf(ERROR) = 0
        /\ pc = "finished" =>
             LET n == Len(events)
             IN  /\ n >= 2
                 /\ events[n].event_type = DONE
                 /\ events[n - 1].event_type = TEMPLATE
                 /\ events[n - 1].data = ModelDump(ParseResponse(accumulated_content))
                 /\ \A i \in 1..(n - 2) : IsChunkEvent(events[i])
                 /\ EventTexts(SubSeq(events, 1, n - 2))
                        = FragmentTexts(NonEmptyFragments)

C1_Witness ==
    /\ pc = "finished"
    /\ upstream = "ended"
    /\ Len(events) >= 4
    /\ events[1].event_type = THINKING
    /\ events[2].event_type = CONTENT
    /\ events[Len(events)].event_type = DONE

\* C2: in every failed run (the upstream stream raised or the terminal parse
\* failed) exactly one ERROR event is emitted, it is the last event, and the
\* stream holds no TEMPLATE and no DONE event.
C2_FailureSequence ==
    RunFailed =>
        /\ CountOf(ERROR) = 1
        /\ events[Len(events)].event_type = ERROR
        /\ CountOf(TEMPLATE) = 0
        /\ CountOf(DONE) = 0

C2_Witness ==
    /\ pc = "finished"
    /\ upstream = "raised"
    /\ Len(events) >= 3
    /\ events[Len(events)].event_type = ERROR

\* C3: once a CONTENT event has followed a THINKING event, no later event of
\* the stream is a THINKING event.
C3_OneDirectional ==
    \A i, j, k \in 1..Len(events) :
        (i < j /\ j < k /\ events[i].event_type = THINKING
               /\ events[j].event_type = CONTENT)
            => events[k].event_type # THINKING

\* C4 as stated: every fragment pulled from the upstream stream, empty ones
\* included, has exactly one THINKING/CONTENT event carrying its text, in order.
C4_EveryFragmentOneEvent ==
    EventTexts(ChunkEvents) = FragmentTexts(fragments)

\* C4: every fragment pulled from the upstream stream whose content is a
\* non-empty text has exactly one THINKING or CONTENT event carrying that text,
\* in upstream order, and no such event follows a TEMPLATE, DONE or ERROR event.
C4_NonEmptyFragmentOneEvent ==
    /\ EventTexts(ChunkEvents) = FragmentTexts(NonEmptyFragments)
    /\ \A i, j \in 1..Len(events) :
           (i < j /\ IsTerminalEvent(events[i])) => IsTerminalEvent(events[j])

C4_Witness ==
    /\ Len(fragments) = 3
    /\ fragments[1].text # <<>>
    /\ fragments[2].text = <<>>
    /\ fragments[3].text # <<>>
    /\ fragments[1].text # fragments[3].text
    /\ Len(events) = 3
    /\ IsTerminalEvent(events[3])

\* C5: a non-empty fragment without a thinking marker that follows a
\* thinking-marked fragment is emitted as a CONTENT event.
C5_UnmarkedAfterThinkingIsContent ==
    \A i \in 2..Len(NonEmptyFragments) :
        (NonEmptyFragments[i - 1].marked /\ ~NonEmptyFragments[i].marked
            /\ i <= Len(ChunkEvents))
            => ChunkEvents[i].event_type = CONTENT

C5_Witness ==
    /\ Len(NonEmptyFragments) >= 2
    /\ NonEmptyFragments[1].marked
    /\ ~NonEmptyFragments[2].marked
    /\ Len(ChunkEvents) >= 2
    /\ ChunkEvents[1].event_type = THINKING
    /\ ChunkEvents[2].event_type = CONTENT

\* C6: when every non-empty fragment of the stream is thinking-marked, the
\* stream holds no CONTENT event.
C6_AllThinkingNoContent ==
    (\A i \in 1..Len(fragments) : HasText(fragments[i]) => fragments[i].marked)
        => CountOf(CONTENT) = 0

C6_Witness ==
    /\ Len(NonEmptyFragments) >= 3
    /\ \A i \in 1..Len(fragments) : fragments[i].marked
    /\ CountOf(THINKING) >= 3
    /\ pc = "finished"

\* C7: the accumulation buffer is the in-order concatenation of the texts of
\* all per-fragment events emitted so far, whatever their classification, and
\* the terminal parse is called once, on exactly that text.
C7_BufferIsConcatenation ==
    /\ accumulated_content = Concat(EventTexts(ChunkEvents))
    /\ Len(parse_calls) <= 1
    /\ upstream = "ended" => parse_calls = <<Concat(EventTexts(ChunkEvents))>>

C7_Witness ==
    /\ Len(parse_calls) = 1
    /\ CountOf(THINKING) >= 1
    /\ CountOf(CONTENT) >= 1
    /\ Len(accumulated_content) >= 4

\* C8: when the upstream stream raises a provider error after k fragments
\* with text, the stream is the k per-fragment events followed by one ERROR
\* event with the provider message; the accumulated text is never parsed and
\* no TEMPLATE or DONE is emitted, even if it holds a complete valid template.
C8_ProviderErrorShortCircuits ==
    (upstream = "raised" /\ raised.cls \in ProviderErrors) =>
        LET n == Len(events)
        IN  /\ n = Len(NonEmptyFragments) + 1
            /\ events[n] = StreamEvent(ERROR, ProviderMessage)
            /\ \A i \in 1..(n - 1) : IsChunkEvent(events[i])
            /\ EventTexts(SubSeq(events, 1, n - 1)) = FragmentTexts(NonEmptyFragments)
            /\ parse_calls = <<>>
            /\ CountOf(TEMPLATE) = 0
            /\ CountOf(DONE) = 0

C8_Witness ==
    /\ pc = "finished"
    /\ upstream = "raised"
    /\ raised.cls = "RateLimitError"
    /\ ParseResponse(accumulated_content).ok
    /\ Len(events) >= 2

\* C9: the data of every ERROR event is one of three fixed strings, chosen by
\* the kind of failure alone (provider, parsing, anything else), and is never
\* the text of the exception the upstream stream raised; a non-provider
\* exception of the upstream stream gives the unexpected-error message.
C9_ErrorMessageFixed ==
    \A i \in 1..Len(events) :
        events[i].event_type = ERROR =>
            /\ events[i].data \in {ProviderMessage, ParsingMessage, UnexpectedMessage}
            /\ events[i].data \notin UpstreamTexts
            /\ (upstream = "raised" /\ raised.cls \in ProviderErrors)
                   => events[i].data = ProviderMessage
            /\ (upstream = "raised" /\ raised.cls \notin ProviderErrors)
                   => events[i].data = UnexpectedMessage
            /\ upstream = "ended" => events[i].data = ParsingMessage

C9_Witness ==
    /\ pc = "finished"
    /\ upstream = "raised"
    /\ raised = [cls |-> "ValueError", msg |-> "API Error"]
    /\ events = <<StreamEvent(ERROR, UnexpectedMessage)>>

\* The fenced blocks of a text as markdown pairs its fences from the left: a
\* ``` or ```json opens a block and the next bare ``` closes it. The result is
\* the set of <<open, close>> of the blocks opened by ```json.
RECURSIVE FirstBareFence(_, _)
FirstBareFence(s, from) ==
    IF from > Len(s) THEN 0
    ELSE IF s[from] = "F" THEN from
    ELSE FirstBareFence(s, from + 1)

RECURSIVE JsonBlocks(_, _)
JsonBlocks(s, from) ==
    LET i == FirstFence(s, from)
        j == FirstBareFence(s, i + 1)
    IN  IF i = 0 \/ j = 0 THEN {}
        ELSE (IF s[i] = "FJ" THEN {<<i, j>>} ELSE {}) \cup JsonBlocks(s, j + 1)

\* Parsing a block alone: its inner text as JSON, validated.
BlockAlone(s, b) ==
    LET loaded == JsonLoads(Strip(SubSeq(s, b[1] + 1, b[2] - 1)))
    IN  IF loaded.raised THEN [ok |-> FALSE, template |-> NoTemplate]
        ELSE ModelValidate(loaded.value)

\* C10 as stated: whenever some fenced JSON block of the text validates,
\* _parse_response returns the template of that block, whatever prose or other
\* blocks stand before or after it.
C10_AnyValidBlock ==
    p_pc = "parsed" =>
        \A b \in JsonBlocks(p_content, 1) :
            BlockAlone(p_content, b).ok =>
                /\ p_result.ok
                /\ p_result.template = BlockAlone(p_content, b).template

\* C10: whenever the text between the first ```json of the text and the
\* nearest ``` after it validates, _parse_response returns the template of
\* that block, whatever fence-free prose stands before it and whatever prose
\* or blocks follow it.
C10_FirstValidBlock ==
    p_pc = "parsed" =>
        \A i, j \in 1..Len(p_content) :
            (/\ i < j
             /\ p_content[i] = "FJ"
             /\ IsFence(p_content[j])
             /\ \A k \in 1..(i - 1) : p_content[k] # "FJ"
             /\ \A k \in (i + 1)..(j - 1) : ~IsFence(p_content[k])
             /\ BlockAlone(p_content, <<i, j>>).ok)
                => /\ p_result.ok
                   /\ p_result.template = BlockAlone(p_content, <<i, j>>).template

C10_Witness ==
    /\ p_pc = "parsed"
    /\ p_content = <<"P", "FJ", "TB", "F", "P">>
    /\ p_result.ok
    /\ p_result.template.template_id = "b"
    /\ p_result.template.status = "active"

\* ---------------------------------------------------- the whole-text path

\* json.loads of the whole reply (white space around a document is allowed),
\* validated against the schema: what "the entire text is valid JSON matching
\* the schema" says of a text, stated without the parser.
WholeTextJson(s) ==
    LET loaded == JsonLoads(Strip(s))
    IN  IF loaded.raised THEN [ok |-> FALSE, template |-> NoTemplate]
        ELSE ModelValidate(loaded.value)

\* C11: a reply with no fenced JSON block whose whole text is a JSON document
\* matching the schema is parsed through the whole-text fallback, and
\* _parse_response returns the template of that document.
C11_WholeTextFallback ==
    p_pc = "parsed" =>
        ((~FencedBlock(p_content).found /\ WholeTextJson(p_content).ok)
            => /\ p_result.ok
               /\ p_result.template = WholeTextJson(p_content).template)

C11_Witness ==
    /\ p_pc = "parsed"
    /\ p_content = <<"WS", "TB", "WS">>
    /\ ~FencedBlock(p_content).found
    /\ p_result.ok
    /\ p_result.template.template_id = "b"

\* A text has a valid fenced block when the block the regular expression
\* picks, or any fenced JSON block of the text, validates on its own.
HasValidFencedBlock(s) ==
    \/ LET m == FencedBlock(s)
       IN  m.found /\ BlockAlone(s, <<m.open, m.close>>).ok
    \/ \E b \in JsonBlocks(s, 1) : BlockAlone(s, b).ok

\* C12: a reply with neither a valid fenced block nor a whole text that is a
\* schema-valid JSON document makes _parse_response raise
\* TemplateParsingError: no template and no explanation-only result.
C12_FailsWhenNeither ==
    p_pc = "parsed" =>
        ((~HasValidFencedBlock(p_content) /\ ~WholeTextJson(p_content).ok)
            => p_result = Failure)

\* ------------------------------------------------------------ explanation

\* The text after position k up to the end of the text or the first fence
\* after k, trimmed.
AfterMarker(s, k) ==
    LET fences == {e \in (k + 1)..Len(s) : s[e] \in {"F", "FJ"}}
        stop == IF fences = {} THEN Len(s) + 1
                ELSE CHOOSE e \in fences : \A f \in fences : e <= f
    IN  Strip(SubSeq(s, k + 1, stop - 1))

\* C13: whichever path found the JSON, the explanation returned is the
\* trimmed text after the first EXPLANATION: marker (in any case) up to the
\* end of the text or the next fence, and the fixed default string when the
\* text has no marker.
C13_ExplanationIndependent ==
    (p_pc = "parsed" /\ p_result.ok) =>
        LET markers == {k \in 1..Len(p_content) : p_content[k] \in {"EX", "ex"}}
        IN  IF markers = {}
            THEN p_result.explanation = DefaultExplanation
            ELSE \E k \in markers :
                    /\ \A m \in markers : k <= m
                    /\ p_result.explanation = AfterMarker(p_content, k)

C13_Witness ==
    /\ p_pc = "parsed"
    /\ p_content = <<"FJ", "TA", "F", "ex", "P">>
    /\ p_result.ok
    /\ p_result.explanation = <<"P">>

\* ------------------------------------------------------ the typed errors

\* generate_template failed inside its try block: the model was invoked.
FailedInTry == op = "module-builder" /\ g_pc = "raised" /\ llm_calls # <<>>

\* C14: a failure of the model call or of parsing its reply leaves
\* generate_template as exactly one typed error: a provider error as
\* LLMProviderError (502), an unparseable or schema-invalid reply as
\* TemplateParsingError (500), any other exception as TemplateGenerationError
\* (500); the kinds and their fixed messages are pairwise distinct.
C14_ThreeTypedErrors ==
    /\ FailedInTry =>
        /\ g_result.kind = "error"
        /\ g_result.cls \in TypedErrors
        /\ cause.cls \in {"APIConnectionError", "APIError", "RateLimitError"} =>
              /\ g_result.cls = "LLMProviderError"
              /\ g_result.status = 502
              /\ g_result.message = "Unable to communicate with AI provider"
        /\ cause.cls = "OutputParserException" =>
              /\ g_result.cls = "TemplateParsingError"
              /\ g_result.status = 500
              /\ g_result.message = "Unable to parse the generated template response"
        /\ cause.cls \notin {"APIConnectionError", "APIError", "RateLimitError",
                             "OutputParserException"} =>
              /\ g_result.cls = "TemplateGenerationError"
              /\ g_result.status = 500
              /\ g_result.message =
                     "An unexpected error occurred during template generation"
    /\ (llm_calls # <<>> /\ reply \in {<<"P">>, <<"TI">>}) =>
           (g_pc = "raised" /\ g_result.cls = "TemplateParsingError")
    /\ Cardinality({ProviderMessage, ParsingMessage, UnexpectedMessage}) = 3

C14_Witness ==
    /\ FailedInTry
    /\ reply = <<"TI">>
    /\ g_result.cls = "TemplateParsingError"
    /\ g_result.status = 500

\* C15: the non-streaming process reports a stream that ended in a provider
\* ERROR as another kind of error than a stream that ended in a parsing
\* ERROR: the provider kind for the first, the parsing kind for the second.
C15_ProcessKeepsErrorKinds ==
    process_result.kind = "error" =>
        /\ raised.cls \in ProviderErrors <=> process_result.cls = "LLMProviderError"
        /\ raised.cls = "TemplateParsingError"
               <=> process_result.cls = "TemplateParsingError"

\* C16: whatever a caller is shown of a failure holds no text of the
\* exception underneath it: not the message of a typed error of
\* generate_template, not the explanation of PersonaAgent.process's response,
\* not the detail of an indexing endpoint's error response.
C16_NoExceptionText ==
    /\ cause # NoException =>
        /\ g_result.kind = "error" => g_result.message # cause.msg
        /\ \A i \in 1..Len(persona_response.explanation) :
               persona_response.explanation[i] # cause.msg
    /\ http_response.exc # NoException =>
        \A i \in 1..Len(http_response.detail) :
            http_response.detail[i] # http_response.exc.msg

\* ------------------------------------------------- best-effort retrieval

\* The similarity search of generate_template could not be made or failed.
RetrievalFailed ==
    op = "module-builder" /\ g_pc # "ready"
        /\ (metadata_store = "none" \/ search = "raised")

\* C17: a missing index or a failing similarity search gives an empty list,
\* never an exception: generate_template goes on, invokes the model with a
\* context built from no related entity, and ends as the model call and the
\* parse decide; PersonaAgent.process gets empty lists and still answers.
C17_RetrievalBestEffort ==
    /\ RetrievalFailed =>
        /\ related_entities = <<>>
        /\ g_pc \in {"waiting", "returned", "raised"} =>
              \/ llm_calls = <<ContextStr(context_entities.items)>>
              \/ /\ llm_calls = <<>>
                 /\ g_result.kind = "raw"
                 /\ \E i \in 1..Len(context_entities.items) :
                        EntityName(context_entities.items[i]).t # "str"
        /\ (g_pc \in {"returned", "raised"} /\ context_entities.items = <<>>) =>
              /\ llm_calls = << <<>> >>
              /\ g_result.kind \in {"template", "error"}
              /\ g_result.kind = "template" <=> cause = NoException
    /\ persona_pc \in {"waiting", "returned"} =>
        /\ persona_pc = "returned" => persona_response # NoResponse
        /\ (metadata_store = "none" \/ "forms" \in persona_retrieved.raised)
               => persona_retrieved.forms = <<>>
        /\ (metadata_store = "none" \/ "views" \in persona_retrieved.raised)
               => persona_retrieved.views = <<>>
        /\ (data_store = "none" \/ "data" \in persona_retrieved.raised)
               => persona_retrieved.data = <<>>

C17_Witness ==
    /\ op = "module-builder"
    /\ metadata_store = "loaded"
    /\ search = "raised"
    /\ related_entities = <<>>
    /\ g_pc = "returned"
    /\ llm_calls = << <<>> >>
    /\ g_result.kind = "template"

\* C18: whatever fails inside generate_template, the collecting of the
\* entities and the building of the context string included, the method is
\* left by one of the three typed domain errors, never by a raw exception.
C18_OnlyTypedErrorsLeave ==
    (op = "module-builder" /\ g_pc = "raised") =>
        /\ g_result.kind = "error"
        /\ g_result.cls \in TypedErrors

\* C19: the single-shot parse and the streaming terminal parse agree on every
\* reply: both accept or both reject it, and when they accept they return the
\* same template.
C19_SameParse ==
    (p_pc = "parsed" /\ s_pc = "parsed") =>
        /\ s_result.ok = p_result.ok
        /\ s_result.ok => s_result.template = p_result.template

\* ---------------------------------------------------------- the hand-over

\* The event of fragment k is with the consumer.
HandedOver(k) ==
    \E i \in 1..Len(h_handed) :
        h_handed[i].k = k /\ h_handed[i].data = h_fragments[k]

\* C20: the event of fragment k is handed to the consumer before fragment
\* k+1 is requested: whenever a further fragment has been pulled, or the
\* generator is running and may pull one, the event of every earlier fragment
\* with text is with the consumer; the events arrive in the order of their
\* fragments, and the route has yielded the frame of each before it asks for
\* the next.
C20_HandedBeforeNextPull ==
    /\ \A k \in 1..Len(h_fragments) :
          (h_fragments[k] # <<>> /\ (k < Len(h_fragments) \/ h_gen = "running"))
              => HandedOver(k)
    /\ \A i, j \in 1..Len(h_handed) :
          (i < j /\ h_handed[i].k # 0 /\ h_handed[j].k # 0)
              => h_handed[i].k < h_handed[j].k
    /\ h_gen = "running" => h_frames = h_handed

C20_Witness ==
    /\ h_fragments = << <<"P">>, <<>>, <<"TA">> >>
    /\ h_gen = "suspended"
    /\ h_handed = <<Handed(1, <<"P">>), Handed(3, <<"TA">>)>>
    /\ h_frames = <<Handed(1, <<"P">>)>>

\* --------------------------------------------------- the first block only

\* C26: when the reply has a fenced JSON block, only the first one counts and
\* the whole-text fallback is not tried: if the text between the first
\* ```json and the nearest ``` after it is not a schema-valid JSON document,
\* _parse_response raises TemplateParsingError, whatever a later block or the
\* whole text would have given.
C26_FirstBlockDecides ==
    p_pc = "parsed" =>
        \A i, j \in 1..Len(p_content) :
            (/\ i < j
             /\ p_content[i] = "FJ"
             /\ p_content[j] \in {"F", "FJ"}
             /\ \A k \in 1..(i - 1) : p_content[k] # "FJ"
             /\ \A k \in (i + 1)..(j - 1) : p_content[k] \notin {"F", "FJ"}
             /\ ~BlockAlone(p_content, <<i, j>>).ok)
                => p_result = Failure

C26_Witness ==
    /\ p_pc = "parsed"
    /\ p_content = <<"FJ", "F", "FJ", "TA", "F">>
    /\ BlockAlone(p_content, <<3, 5>>).ok
    /\ ParserParse(<<"FJ", "F", "TA">>).ok
    /\ p_result = Failure

\* ------------------------------------------------------ fragments without text

\* C27: a fragment whose content is empty or missing yields no event and
\* leaves the accumulation buffer and the current mode as they were, also
\* when it carries a thinking marker.
C27_EmptyFragmentNoEffect ==
    [][(/\ Len(fragments') = Len(fragments) + 1
        /\ fragments'[Len(fragments')].text = <<>>)
          => /\ events' = events
             /\ accumulated_content' = accumulated_content
             /\ current_mode' = current_mode]_vars

C27_Witness ==
    /\ Len(fragments) = 2
    /\ fragments[1].text # <<>>
    /\ ~fragments[1].marked
    /\ fragments[2].text = <<>>
    /\ fragments[2].marked
    /\ Len(events) = 1
    /\ current_mode = CONTENT
    /\ accumulated_content = fragments[1].text

\* ------------------------------------------------- process on a TEMPLATE event

\* C24: once process has handled a stream that emitted a TEMPLATE event it has
\* a StreamingTemplateResponse holding that event's template, and it raises
\* TemplateParsingError only when the stream completed without a TEMPLATE event.
C24_ProcessReturnsEventTemplate ==
    /\ (CountTemplates > 0 /\ process_result.kind # "none") =>
           /\ process_result.kind \in {"final_response", "returned"}
           /\ \E i \in 1..Len(events) :
                  /\ events[i].event_type = TEMPLATE
                  /\ process_result.template = events[i].data.template
    /\ process_result.cls = "TemplateParsingError" =>
           /\ pc = "finished"
           /\ CountTemplates = 0

\* ------------------------------------------------ what PersonaAgent.process returns

\* The model call of _resolve_with_llm raised.
ModelFailed == cause \notin {NoException, ValidationFailed}

\* C28: process always returns a response; when the model call failed it is
\* the fixed 'error' view without existing data; otherwise the resolution is
\* the first retrieved form if there is one, else the first retrieved view,
\* else the fixed 'default' view, and its type is 'form' exactly when a form
\* was retrieved.
C28_ResolutionFollowsRetrieval ==
    persona_pc = "returned" =>
        LET forms == persona_retrieved.forms
            views == persona_retrieved.views
            r == persona_response
        IN  /\ r # NoResponse
            /\ ModelFailed =>
                   /\ r.type = "view"
                   /\ r.id = "error"
                   /\ r.existing_data = <<>>
            /\ ~ModelFailed =>
                   /\ r.type = "form" <=> forms # <<>>
                   /\ forms # <<>> =>
                          /\ StrValue(r.id) = Get(forms[1].id, "unknown")
                          /\ StrValue(r.name) = Get(forms[1].name, "Unknown")
                   /\ (forms = <<>> /\ views # <<>>) =>
                          /\ StrValue(r.id) = Get(views[1].id, "unknown")
                          /\ StrValue(r.name) = Get(views[1].name, "Unknown")
                   /\ (forms = <<>> /\ views = <<>>) => r.id = "default"

\* ------------------------------------------------- the conversation context

\* C29: whatever add_to_context, clear_context and get_context_entities calls
\* were made, the agent's context is the entities added since the last clear,
\* in insertion order; get_context_entities returns exactly that list, and what
\* its caller does to the returned list leaves the agent's context alone;
\* generate_template puts the names of exactly those entities into the prompt,
\* after the retrieved ones, and leaves the context as it was.
C29_ContextIsAddedSinceClear ==
    op = "module-builder" =>
        /\ context_memory = added
        /\ ctx_call = "get" => context_copy.items = added
        /\ ctx_call = "generate" =>
               /\ context_entities.items = added
               /\ context_memory = context_entities.items
        /\ llm_calls # <<>> =>
               llm_calls = <<ContextStr(related_entities \o context_entities.items)>>

C29_Witness ==
    /\ op = "module-builder"
    /\ ctx_call = "mutate"
    /\ Len(added) = 1
    /\ context_copy.items = <<>>
    /\ context_memory = added

\* ------------------------------------------------ state shared between requests

\* C21: what a generate request puts into its prompt is fixed by its own
\* input and the index, that is by the entities its search retrieved, and
\* holds nothing that an earlier call on the singleton agent left in the
\* conversation context.
C21_PromptFromInputAndIndex ==
    (op = "module-builder" /\ llm_calls # <<>>) =>
        llm_calls = <<ContextStr(related_entities)>>

\* ------------------------------------------------------------ one agent each

\* C23: between two resets of its cache, each of get_agent (per type),
\* create_template_agent and create_streaming_template_agent constructs at
\* most one agent and returns one and the same instance; get_agent for a type
\* that is not registered raises ValueError and leaves the registrations and
\* the cache as they were.
C23_OneInstancePerAccessor ==
    /\ \A a \in Accessors :
           /\ Cardinality(built[a]) <= 1
           /\ Cardinality(returned[a]) <= 1
    /\ last.kind # "none" =>
           /\ last.kind = "ValueError" <=> ~last.registered
           /\ last.kind = "ValueError" => last.unchanged

\* ------------------------------------------------------- a request's prompt

\* The prompt is missing, empty, or longer than 4000 characters.
PromptOutOfRange ==
    \/ rq_prompt.t = "absent"
    \/ /\ rq_prompt.t = "str"
       /\ (rq_prompt.len = 0 \/ rq_prompt.len > MaxPromptLength)

\* C25: a generate request whose prompt is missing, empty or longer than 4000
\* characters never reaches the endpoint function: it is answered with status
\* 422 and a problem object that has an errors map with the key "prompt", and
\* nothing of an agent or of the model is called for it.
C25_InvalidPromptRejected ==
    (rq_pc \notin {"received", "solving", "solved"} /\ PromptOutOfRange) =>
        /\ rq_pc \in {"invalid", "answered"}
        /\ rq_pc = "answered" =>
               /\ rq_response.status_code = 422
               /\ "errors" \in DOMAIN rq_response.content
               /\ <<"prompt">> \in DOMAIN rq_response.content.errors
        /\ rq_calls = <<>>

\* ------------------------------------------------- the saved index, the loaded index

\* C22: after every index_metadata / index_data call that succeeded, the saved
\* index of that kind holds exactly the documents of the persona agent's
\* in-memory index, the one just added among them, and none of the documents
\* the in-memory index held before the call is missing.
C22_SavedIsInMemory ==
    \A kind \in IndexKinds :
        index_result[kind].ok =>
            /\ saved_index[kind].exists
            /\ persona_index[kind].loaded
            /\ saved_index[kind].docs = persona_index[kind].docs
            /\ index_result[kind].doc \in saved_index[kind].docs
            /\ index_result[kind].before \subseteq saved_index[kind].docs

C22_Witness ==
    /\ index_result["metadata"].ok
    /\ index_result["metadata"].doc.n = 2
    /\ \E d \in index_result["metadata"].before : d.n = 1
    /\ Cardinality(saved_index["metadata"].docs) >= 2
    /\ saved_index["metadata"].docs = persona_index["metadata"].docs

\* C30: what find_related_entities of a constructed module-builder agent
\* returns lies within the metadata index its constructor loaded, its store
\* never changes afterwards, and when the load failed every search returns
\* nothing; documents the persona agent indexes later are not returned.
C30_SearchFixedAtConstruction ==
    /\ builder_index.constructed => builder_index.store = loaded_docs
    /\ found.searched =>
           /\ found.docs \subseteq loaded_docs.docs
           /\ ~loaded_docs.loaded => found.docs = {}

C30_Witness ==
    /\ found.searched
    /\ found.docs # {}
    /\ \E d \in saved_index["metadata"].docs :
           /\ d.type = "entity"
           /\ d \in persona_index["metadata"].docs
           /\ d \notin loaded_docs.docs
           /\ d.n < found.at
           /\ d \notin found.docs

====
